---- MODULE Spec2Model ----
(***************************************************************************)
(* League Record: the Game Session Listener (recorder/game_listener.rs),   *)
(* its supervisor (recorder/league_recorder.rs), the Live Poller           *)
(* (GameListener::run_info_poller) and the Event Reconciler                *)
(* (recorder/metadata.rs, merge_live_events).                              *)
(*                                                                         *)
(* Spec       : the supervisor, one listener at a time, its tasks.         *)
(* SpecFair   : Spec with the supervisor task scheduled fairly.            *)
(* SpecMerge  : one call of merge_live_events on bounded arguments.        *)
(* SpecPoller : one Live Poller over a bounded number of polls.            *)
(* SpecCollector : one detached Metadata Collector, from its spawn to the  *)
(*              end of its task (process_data_with_retry, the sidecar).    *)
(***************************************************************************)
EXTENDS Integers, Sequences, FiniteSets, TLC

VARIABLES
    pc,                     \* position of the supervisor task / listener run
    cancelled,              \* root CancellationToken of LeagueRecorder
    state,                  \* GameListener.state
    last_stopped_game_id,   \* GameListener.last_stopped_game_id
    recordingTasks,         \* number of RecordingTask objects alive
    highlightTasks,         \* number of HighlightTask objects alive
    livePollers,            \* number of run_info_poller tasks running
    collectors,             \* number of detached Metadata Collectors running
    last,                   \* history: the last step, its input and its effects
    current_events,         \* merge_live_events: the list being merged
    merge_args,             \* merge_live_events: its other arguments
    merge_pc,               \* merge_live_events: called / returned
    last_event_id,          \* run_info_poller: the raw-event watermark
    previous_inventory,     \* run_info_poller: summoner name -> items
    live_buffer,            \* run_info_poller: the shared buffer live_events
    summoner_names,         \* the names of the players of the polled game
    polls,                  \* run_info_poller: polls made so far
    tick,                   \* history: the last poll, its data and its events
    collector,              \* one detached Metadata Collector and its history
    sidecars,               \* the sidecar files: path -> MetadataFile
    hotkeys                 \* the manual stop/start broadcast channels

listenerVars == <<pc, cancelled, state, last_stopped_game_id, recordingTasks,
                  highlightTasks, livePollers, collectors, last>>

mergeVars == <<current_events, merge_args, merge_pc>>

pollerVars == <<last_event_id, previous_inventory, live_buffer, summoner_names,
                polls, tick>>

collectorVars == <<collector, sidecars>>

hotkeyVars == <<hotkeys>>

vars == <<listenerVars, mergeVars, pollerVars, collectorVars, hotkeyVars>>

(***************************************************************************)
(* Bounds                                                                  *)
(***************************************************************************)
MaxGameId == 2
MaxCollectors == 1
MaxLiveEvents == 1
MaxTimelineEvents == 2
MaxMergeLiveEvents == 2
MaxPolls == 2
MaxAttempts == 2
MaxSignals == 3
MaxToggles == 2

(***************************************************************************)
(* Option<T>                                                               *)
(***************************************************************************)
None == <<>>
Some(x) == <<x>>

(***************************************************************************)
(* LCU data types                                                          *)
(***************************************************************************)
GamePhase ==
    {"None", "Lobby", "Matchmaking", "ReadyCheck", "ChampSelect", "GameStart",
     "InProgress", "Reconnect", "WaitingForStats", "PreEndOfGame", "EndOfGame",
     "TerminatedInError", "FailedToLaunch"}

Session(phase, game_id, queue_id, is_ranked, game_mode) ==
    [type |-> "Session", phase |-> phase, game_id |-> game_id,
     queue_id |-> queue_id, is_ranked |-> is_ranked, game_mode |-> game_mode]

EogStatsBlock ==
    [type |-> "EogStatsBlock", phase |-> "None", game_id |-> 0,
     queue_id |-> 0, is_ranked |-> FALSE, game_mode |-> None]

\* the game data the LCU reports in the model, <<queue.id, queue.is_ranked,
\* game_mode>>: a ranked queue, an ARAM queue, and a queue (900, URF) that is
\* not in the listener's hard-coded table, with and without a game mode
GameDatas ==
    {<<420, TRUE, Some("URF")>>, <<450, FALSE, Some("RANKED")>>,
     <<900, FALSE, None>>, <<900, FALSE, Some("URF")>>}

\* sessions of every phase and game
PolledSessions ==
    {Session(ph, g, 420, TRUE, None) : ph \in GamePhase, g \in 1..MaxGameId}

SessionEvents ==
    {Session(ph, g, d[1], d[2], d[3]) :
        ph \in {"GameStart", "InProgress"}, g \in 1..MaxGameId, d \in GameDatas}
    \cup PolledSessions

SubscriptionResponse == SessionEvents \cup {EogStatsBlock}

\* the event GameListener::run builds for a manual stop
ManualStopEventMut == Session("EndOfGame", 0, 0, FALSE, None)

ManualStopEvent == Session("PreEndOfGame", 0, 0, FALSE, None)

(***************************************************************************)
(* Settings                                                                *)
(***************************************************************************)
\* values of Settings.game_modes the user can have configured
AllowLists == {None, Some(<<>>), Some(<<"Ranked", "unknown">>)}

ToUppercaseMut(s) == s

\* str::to_uppercase on the strings of the model
to_uppercase(s) ==
    CASE s = "Ranked" -> "RANKED"
      [] s = "ranked" -> "RANKED"
      [] s = "urf" -> "URF"
      [] s = "aram" -> "ARAM"
      [] s = "unknown" -> "UNKNOWN"
      [] OTHER -> s

\* the mode string chosen for a queue id and the event's game_mode
mode_val(queue_id, game_mode) ==
    CASE queue_id \in {420, 440} -> "RANKED"
      [] queue_id \in {400, 430, 490} -> "NORMAL"
      [] queue_id \in {450, 100} -> "ARAM"
      [] queue_id = 3140 -> "PRACTICE_TOOL"
      [] queue_id = 1700 -> "CHERRY"
      [] queue_id \in {830, 840, 850, 890} -> "COOP_VS_AI"
      [] queue_id \in {1090, 1100, 1130, 1160} -> "TFT"
      [] queue_id = 0 -> "CUSTOM"
      [] OTHER -> IF game_mode # None THEN game_mode[1] ELSE "UNKNOWN"

is_mode_allowed(allowed_modes, queue_id, game_mode) ==
    IF allowed_modes # None /\ allowed_modes[1] # <<>>
    THEN LET modes == allowed_modes[1]
             mode_upper == to_uppercase(mode_val(queue_id, game_mode))
         IN  \E i \in 1..Len(modes) : to_uppercase(modes[i]) = mode_upper
    ELSE TRUE

(***************************************************************************)
(* enum State                                                              *)
(***************************************************************************)
Idle == [tag |-> "Idle"]

\* live_task: the poller of this state runs; live_events: the buffer the
\* state shares with it
Recording(recording_task, live_task, live_events, start_lp) ==
    [tag |-> "Recording", recording_task |-> recording_task,
     live_task |-> live_task, live_events |-> live_events,
     start_lp |-> start_lp]

EndOfGame(metadata, live_events, start_lp) ==
    [tag |-> "EndOfGame", metadata |-> metadata, live_events |-> live_events,
     start_lp |-> start_lp]

\* RecordingTask::new(ctx.game_ctx(game_id))
RecordingTask(game_id) == [game_id |-> game_id]

\* the Metadata handle RecordingTask::stop returns for the task; the output
\* file is named after the recording
Metadata(task) ==
    [match_id |-> task.game_id, output_filepath |-> task.game_id]

\* results of fetch_current_lp
LpResults == {None, Some(10)}

FetchStartLpMut(is_ranked) == LpResults

\* start_lp of a recording the Idle arm starts: fetch_current_lp's result for
\* a ranked queue, None for any other
fetch_start_lp(is_ranked) == IF is_ranked THEN LpResults ELSE {None}

\* start_lp of a recording a manual start builds
manual_start_lp == None

(***************************************************************************)
(* History of the last step                                                *)
(***************************************************************************)
\* kind: the step; ev: the event it consumed; pre: the listener before the
\* step; game_modes, auto_popup_on_end: the settings it read; emitted: the
\* AppEvents it sent; raised: whether it raised the main window; spawned: the
\* Metadata Collectors it spawned, each with what was moved into it; stop: the
\* result of RecordingTask::stop in a stop transition
Pre ==
    [state |-> state, last_stopped_game_id |-> last_stopped_game_id,
     recordingTasks |-> recordingTasks, highlightTasks |-> highlightTasks,
     livePollers |-> livePollers, collectors |-> collectors]

Turn(kind, ev, game_modes, auto_popup_on_end, emitted, raised, spawned) ==
    [kind |-> kind, ev |-> ev, pre |-> Pre, game_modes |-> game_modes,
     auto_popup_on_end |-> auto_popup_on_end, emitted |-> emitted,
     raised |-> raised, spawned |-> spawned, stop |-> "none",
     steps |-> <<>>]

\* the effects of the stop transition out of State::Recording, in the order
\* the arm performs them; stop is the result of RecordingTask::stop
StopStepsMut(stop) ==
    <<"last_stopped_game_id", "highlight_task.stop", "live_task.abort",
      "live_events.clone">>
    \o (IF stop = "ok"
        THEN <<"RecordingFinished", "recording_task.stop", "EndOfGame">>
        ELSE <<"recording_task.stop", "Idle">>)

StopSteps(stop) ==
    <<"last_stopped_game_id", "highlight_task.stop", "live_task.abort",
      "live_events.clone", "recording_task.stop">>
    \o (IF stop = "ok" THEN <<"RecordingFinished", "EndOfGame">>
                       ELSE <<"Idle">>)

StopTurn(kind, ev, auto_popup_on_end, emitted, raised, stop) ==
    [Turn(kind, ev, None, auto_popup_on_end, emitted, raised, <<>>)
        EXCEPT !.stop = stop, !.steps = StopSteps(stop)]

\* the cleanup after the select loop of run, in the order it is performed
CleanupStepsMut(tag) ==
    IF tag = "Recording"
    THEN <<"highlight_task.stop", "live_task.abort", "return",
           "recording_task.stop">>
    ELSE <<"return">>

CleanupSteps(tag) ==
    IF tag = "Recording"
    THEN <<"recording_task.stop", "highlight_task.stop", "live_task.abort",
           "return">>
    ELSE <<"return">>

NoTurn(kind) ==
    [kind |-> kind, ev |-> EogStatsBlock,
     pre |-> [state |-> Idle, last_stopped_game_id |-> None,
              recordingTasks |-> 0, highlightTasks |-> 0, livePollers |-> 0,
              collectors |-> 0],
     game_modes |-> None, auto_popup_on_end |-> FALSE, emitted |-> <<>>,
     raised |-> FALSE, spawned |-> <<>>, stop |-> "none", steps |-> <<>>]

RecordingFinished(video_name, is_manual_stop) ==
    [type |-> "RecordingFinished", payload |-> <<video_name, is_manual_stop>>]

(***************************************************************************)
(* GameListener::state_transition                                          *)
(***************************************************************************)
StartPhases == {"GameStart", "InProgress"}
StopPhasesMut == {"FailedToLaunch", "Reconnect", "WaitingForStats", "PreEndOfGame", "EndOfGame"}

StopPhases == {"FailedToLaunch", "Reconnect", "WaitingForStats", "PreEndOfGame"}
CollectPhasesMut == {"EndOfGame", "TerminatedInError", "ChampSelect", "InProgress"}

CollectPhases == {"EndOfGame", "TerminatedInError", "ChampSelect", "GameStart"}

\* the arms' `_ =>` cases: the state is put back as it was
Unchanged(kind, sub_resp) ==
    /\ state' = state
    /\ last' = Turn(kind, sub_resp, None, FALSE, <<>>, FALSE, <<>>)
    /\ UNCHANGED <<last_stopped_game_id, recordingTasks, highlightTasks,
                   livePollers, collectors>>

\* the guard of the Idle arm: not the game whose recording was stopped last
NotLastStoppedMut(game_id) == TRUE

NotWhileCollectingMut(game_id) ==
    /\ Some(game_id) # last_stopped_game_id
    /\ collectors = 0

not_last_stopped(game_id) == Some(game_id) # last_stopped_game_id

\* State::Idle arm
IdleArm(kind, sub_resp) ==
    IF /\ sub_resp.type = "Session"
       /\ sub_resp.phase \in StartPhases
       /\ not_last_stopped(sub_resp.game_id)
    THEN \E allowed_modes \in AllowLists :
         IF is_mode_allowed(allowed_modes, sub_resp.queue_id,
                            sub_resp.game_mode)
         THEN \E start_lp \in fetch_start_lp(sub_resp.is_ranked) :
                /\ last_stopped_game_id' =
                       IF Some(sub_resp.game_id) # last_stopped_game_id
                       THEN None ELSE last_stopped_game_id
                /\ state' = Recording(RecordingTask(sub_resp.game_id), TRUE,
                                      <<>>, start_lp)
                /\ recordingTasks' = recordingTasks + 1
                /\ highlightTasks' = highlightTasks + 1
                /\ livePollers' = livePollers + 1
                /\ last' = Turn(kind, sub_resp, allowed_modes, FALSE, <<>>,
                                FALSE, <<>>)
                /\ UNCHANGED collectors
         ELSE /\ state' = Idle
              /\ last' = Turn(kind, sub_resp, allowed_modes, FALSE, <<>>,
                              FALSE, <<>>)
              /\ UNCHANGED <<last_stopped_game_id, recordingTasks,
                             highlightTasks, livePollers, collectors>>
    ELSE Unchanged(kind, sub_resp)

\* the game id the Recording arm records as stopped
StoppedGameIdMut(sub_resp) == sub_resp.game_id

stopped_game_id(sub_resp) == state.recording_task.game_id

\* the main window is raised after RecordingFinished was sent
AutoPopupMut(is_manual_stop, auto_popup_on_end, window) ==
    auto_popup_on_end /\ window

auto_popup(is_manual_stop, auto_popup_on_end, window) ==
    /\ ~is_manual_stop
    /\ auto_popup_on_end
    /\ window

RecordingArmMut(kind, sub_resp, is_manual_stop) ==
    IF sub_resp.type = "Session" /\ sub_resp.phase \in StopPhases
    THEN LET task == state.recording_task
             collected_events == state.live_events
             metadata == Metadata(task)
             finished == RecordingFinished(metadata.output_filepath,
                                           is_manual_stop)
         IN  /\ last_stopped_game_id' = Some(stopped_game_id(sub_resp))
             /\ highlightTasks' = highlightTasks - 1
             /\ livePollers' = livePollers - 1
             /\ recordingTasks' = recordingTasks - 1
             /\ \/ /\ state' = EndOfGame(metadata, collected_events,
                                         state.start_lp)
                   /\ \E auto_popup_on_end \in BOOLEAN, window \in BOOLEAN :
                        last' = StopTurn(kind, sub_resp, auto_popup_on_end,
                                    <<finished>>,
                                    auto_popup(is_manual_stop,
                                               auto_popup_on_end, window),
                                    "ok")
                \/ /\ state' = EndOfGame(metadata, collected_events,
                                         state.start_lp)
                   /\ last' = StopTurn(kind, sub_resp, FALSE, <<>>, FALSE,
                                       "err")
             /\ UNCHANGED collectors
    ELSE Unchanged(kind, sub_resp)

\* State::Recording arm; auto_popup_on_end is the setting at that moment,
\* window whether the main window exists
RecordingArm(kind, sub_resp, is_manual_stop) ==
    IF sub_resp.type = "Session" /\ sub_resp.phase \in StopPhases
    THEN LET task == state.recording_task
             collected_events == state.live_events
             metadata == Metadata(task)
             finished == RecordingFinished(metadata.output_filepath,
                                           is_manual_stop)
         IN  /\ last_stopped_game_id' = Some(stopped_game_id(sub_resp))
             /\ highlightTasks' = highlightTasks - 1
             /\ livePollers' = livePollers - 1
             /\ recordingTasks' = recordingTasks - 1
             /\ \/ /\ state' = EndOfGame(metadata, collected_events,
                                         state.start_lp)
                   /\ \E auto_popup_on_end \in BOOLEAN, window \in BOOLEAN :
                        last' = StopTurn(kind, sub_resp, auto_popup_on_end,
                                    <<finished>>,
                                    auto_popup(is_manual_stop,
                                               auto_popup_on_end, window),
                                    "ok")
                \/ /\ state' = Idle
                   /\ last' = StopTurn(kind, sub_resp, FALSE, <<>>, FALSE,
                                       "err")
             /\ UNCHANGED collectors
    ELSE Unchanged(kind, sub_resp)

\* State::EndOfGame arm
EndOfGameArm(kind, sub_resp) ==
    IF \/ sub_resp.type = "EogStatsBlock"
       \/ sub_resp.type = "Session" /\ sub_resp.phase \in CollectPhases
    THEN /\ collectors < MaxCollectors
         /\ collectors' = collectors + 1
         /\ state' = Idle
         /\ last' = Turn(kind, sub_resp, None, FALSE, <<>>, FALSE,
                <<[metadata |-> state.metadata,
                   live_events |-> state.live_events,
                   start_lp |-> state.start_lp]>>)
         /\ UNCHANGED <<last_stopped_game_id, recordingTasks, highlightTasks,
                        livePollers>>
    ELSE Unchanged(kind, sub_resp)

state_transition(kind, sub_resp, is_manual_stop) ==
    CASE state.tag = "Idle" -> IdleArm(kind, sub_resp)
      [] state.tag = "Recording" -> RecordingArm(kind, sub_resp, is_manual_stop)
      [] state.tag = "EndOfGame" -> EndOfGameArm(kind, sub_resp)

(***************************************************************************)
(* LeagueRecorder: the supervisor task                                     *)
(***************************************************************************)
\* one pass of the supervisor loop: read the credentials and the platform id,
\* build a GameListener
SupervisorTry ==
    /\ pc = "supervisor"
    /\ \/ /\ pc' = "init"
          /\ state' = Idle
          /\ last_stopped_game_id' = None
       \/ /\ pc' = "sleep"
          /\ UNCHANGED <<state, last_stopped_game_id>>
    /\ last' = NoTurn("other")
    /\ UNCHANGED <<cancelled, recordingTasks, highlightTasks, livePollers,
                   collectors>>
    /\ UNCHANGED <<mergeVars, pollerVars, collectorVars, hotkeyVars>>

\* a supervisor whose sleep does not look at the token
SupervisorSleepMut ==
    /\ pc = "sleep"
    /\ pc' = "supervisor"
    /\ last' = NoTurn("other")
    /\ UNCHANGED <<cancelled, state, last_stopped_game_id, recordingTasks,
                   highlightTasks, livePollers, collectors>>
    /\ UNCHANGED <<mergeVars, pollerVars, collectorVars, hotkeyVars>>

\* cancellable!(sleep(1 s), cancel_token, ())
SupervisorSleep ==
    /\ pc = "sleep"
    /\ pc' = IF cancelled THEN "terminated" ELSE "supervisor"
    /\ last' = NoTurn("other")
    /\ UNCHANGED <<cancelled, state, last_stopped_game_id, recordingTasks,
                   highlightTasks, livePollers, collectors>>
    /\ UNCHANGED <<mergeVars, pollerVars, collectorVars, hotkeyVars>>

\* LeagueRecorder::stop cancels the root token
Cancel ==
    /\ ~cancelled
    /\ cancelled' = TRUE
    /\ last' = NoTurn("other")
    /\ UNCHANGED <<pc, state, last_stopped_game_id, recordingTasks,
                   highlightTasks, livePollers, collectors>>
    /\ UNCHANGED <<mergeVars, pollerVars, collectorVars, hotkeyVars>>

(***************************************************************************)
(* GameListener::run                                                       *)
(***************************************************************************)
\* connecting the websocket or subscribing fails: run returns the error
ConnectFail ==
    /\ pc = "init"
    /\ pc' = "sleep"
    /\ last' = NoTurn("other")
    /\ UNCHANGED <<cancelled, state, last_stopped_game_id, recordingTasks,
                   highlightTasks, livePollers, collectors>>
    /\ UNCHANGED <<mergeVars, pollerVars, collectorVars, hotkeyVars>>

InitialPollMut ==
    /\ pc = "init"
    /\ \/ /\ pc' = "loop"
          /\ \E init_event_data \in SessionEvents :
                state_transition("init_poll", init_event_data, FALSE)
       \/ /\ pc' = "sleep"
          /\ last' = NoTurn("init_poll_err")
          /\ UNCHANGED <<state, last_stopped_game_id, recordingTasks,
                         highlightTasks, livePollers, collectors>>
    /\ UNCHANGED cancelled
    /\ UNCHANGED <<mergeVars, pollerVars, collectorVars, hotkeyVars>>

\* the REST poll of the gameflow session before the select loop
InitialPoll ==
    /\ pc = "init"
    /\ pc' = "loop"
    /\ \/ \E init_event_data \in SessionEvents :
              state_transition("init_poll", init_event_data, FALSE)
       \/ /\ last' = NoTurn("init_poll_err")
          /\ UNCHANGED <<state, last_stopped_game_id, recordingTasks,
                         highlightTasks, livePollers, collectors>>
    /\ UNCHANGED cancelled
    /\ UNCHANGED <<mergeVars, pollerVars, collectorVars, hotkeyVars>>

\* select!: an Update event of the websocket
WsEvent ==
    /\ pc = "loop"
    /\ \E event_data \in SubscriptionResponse :
          state_transition("ws", event_data, FALSE)
    /\ UNCHANGED <<pc, cancelled>>
    /\ UNCHANGED <<mergeVars, pollerVars, collectorVars, hotkeyVars>>

\* select!: manual_stop_rx.recv() yields a signal of LeagueRecorder::manual_stop
ManualStop ==
    /\ pc = "loop"
    /\ state_transition("manual_stop", ManualStopEvent, TRUE)
    /\ UNCHANGED <<pc, cancelled>>
    /\ UNCHANGED <<mergeVars, pollerVars, collectorVars, hotkeyVars>>

ShouldStartMut(data) == data.phase \in StartPhases

ShouldStartIdleMut(data) == data.phase \in StartPhases /\ state.tag = "Idle"

ShouldStartPhaseMut(data) ==
    /\ data.phase \in StartPhases \cup {"ChampSelect"}
    /\ state.tag \in {"Idle", "EndOfGame"}

\* manual start: has the polled session a phase to record, and is the
\* listener not recording
should_start(data) ==
    /\ data.phase \in StartPhases
    /\ state.tag \in {"Idle", "EndOfGame"}

\* select!: manual_start_rx.recv() yields a signal of
\* LeagueRecorder::manual_start, then the REST poll of the session
ManualStart ==
    /\ pc = "loop"
    /\ \/ \E data \in PolledSessions :
            IF should_start(data)
            THEN /\ state' = Recording(RecordingTask(data.game_id), TRUE,
                                       <<>>, manual_start_lp)
                 /\ recordingTasks' = recordingTasks + 1
                 /\ highlightTasks' = highlightTasks + 1
                 /\ livePollers' = livePollers + 1
                 /\ last' = Turn("manual_start", data, None, FALSE, <<>>,
                                 FALSE, <<>>)
                 /\ UNCHANGED <<last_stopped_game_id, collectors>>
            ELSE Unchanged("manual_start", data)
       \/ /\ state' = state
          /\ last' = Turn("manual_start_err", EogStatsBlock, None, FALSE,
                          <<>>, FALSE, <<>>)
          /\ UNCHANGED <<last_stopped_game_id, recordingTasks,
                         highlightTasks, livePollers, collectors>>
    /\ UNCHANGED <<pc, cancelled>>
    /\ UNCHANGED <<mergeVars, pollerVars, collectorVars, hotkeyVars>>

\* the loop breaks (the websocket stream ended, or the token is cancelled);
\* a recording still running is stopped and run returns
LoopExit ==
    /\ pc = "loop"
    /\ \E ws_closed \in BOOLEAN : ws_closed \/ cancelled
    /\ pc' = "sleep"
    /\ state' = Idle
    /\ IF state.tag = "Recording"
       THEN /\ recordingTasks' = recordingTasks - 1
            /\ highlightTasks' = highlightTasks - 1
            /\ livePollers' = livePollers - 1
       ELSE UNCHANGED <<recordingTasks, highlightTasks, livePollers>>
    /\ last' = [Turn("loop_exit", EogStatsBlock, None, FALSE, <<>>, FALSE,
                      <<>>) EXCEPT !.steps = CleanupSteps(state.tag)]
    /\ UNCHANGED <<cancelled, last_stopped_game_id, collectors>>
    /\ UNCHANGED <<mergeVars, pollerVars, collectorVars, hotkeyVars>>

\* LeagueRecorder::stop, after the cancel: the supervisor task has not ended
\* within 2 s and is aborted. Its future is dropped where it waits, and the
\* listener with it: the Recording Task and the Highlight Task are dropped,
\* and so is the JoinHandle of the Live Poller, which detaches that task
\* and does not stop it
ForcedAbort ==
    /\ cancelled
    /\ pc \in {"supervisor", "init", "loop", "sleep"}
    /\ pc' = "terminated"
    /\ state' = Idle
    /\ recordingTasks' = 0
    /\ highlightTasks' = 0
    /\ livePollers' = livePollers
    /\ last' = Turn("forced_abort", EogStatsBlock, None, FALSE, <<>>, FALSE,
                    <<>>)
    /\ UNCHANGED <<cancelled, last_stopped_game_id, collectors>>
    /\ UNCHANGED <<mergeVars, pollerVars, collectorVars, hotkeyVars>>

(***************************************************************************)
(* Tasks spawned by the listener                                           *)
(***************************************************************************)
\* a tick of the running Live Poller appends to the buffer it shares with
\* State::Recording
PollerTick ==
    /\ state.tag = "Recording"
    /\ state.live_task
    /\ Len(state.live_events) < MaxLiveEvents
    /\ state' = [state EXCEPT !.live_events = Append(@, "live")]
    /\ last' = NoTurn("other")
    /\ UNCHANGED <<pc, cancelled, last_stopped_game_id, recordingTasks,
                   highlightTasks, livePollers, collectors>>
    /\ UNCHANGED <<mergeVars, pollerVars, collectorVars, hotkeyVars>>

\* a detached Metadata Collector ends
CollectorDone ==
    /\ collectors > 0
    /\ collectors' = collectors - 1
    /\ last' = NoTurn("other")
    /\ UNCHANGED <<pc, cancelled, state, last_stopped_game_id, recordingTasks,
                   highlightTasks, livePollers>>
    /\ UNCHANGED <<mergeVars, pollerVars, collectorVars, hotkeyVars>>

(***************************************************************************)
(* Strings of the reconciler and the poller: a string is a sequence of     *)
(* tokens, a tag such as "#CNAME:" being one token                         *)
(***************************************************************************)
\* str::rfind for a one-token pattern: the index of its last occurrence, 0
\* when there is none
rfind(s, pat) ==
    IF \E i \in 1..Len(s) : s[i] = pat
    THEN CHOOSE i \in 1..Len(s) :
            s[i] = pat /\ \A j \in (i + 1)..Len(s) : s[j] # pat
    ELSE 0

\* str::contains
contains(s, t) ==
    \E i \in 0..(Len(s) - Len(t)) : SubSeq(s, i + 1, i + Len(t)) = t

(***************************************************************************)
(* recorder/metadata.rs: merge_live_events                                 *)
(***************************************************************************)
PlayerItem(item_id, slot) == [item_id |-> item_id, slot |-> slot]

\* LiveGameEvent; event_time counts half milliseconds of the f64 seconds
ItemPurchased(event_time, shopper_name, item) ==
    [type |-> "ItemPurchased", event_id |-> 0, event_time |-> event_time,
     shopper_name |-> shopper_name, item |-> item]

ItemSold(event_time, shopper_name, item) ==
    [type |-> "ItemSold", event_id |-> 0, event_time |-> event_time,
     shopper_name |-> shopper_name, item |-> item]

ItemUndo(event_time, shopper_name, item_before, item_after, gold_gain) ==
    [type |-> "ItemUndo", event_id |-> 0, event_time |-> event_time,
     shopper_name |-> shopper_name, item_before |-> item_before,
     item_after |-> item_after, gold_gain |-> gold_gain]

\* a LiveGameEvent of any other kind
OtherLiveEvent(event_id, event_time) ==
    [type |-> "ChampionKill", event_id |-> event_id, event_time |-> event_time]

GameEvent(event, timestamp) == [event |-> event, timestamp |-> timestamp]

ParticipantIdentity(participant_id, game_name, tag_line) ==
    [participant_id |-> participant_id,
     player |-> [game_name |-> game_name, tag_line |-> tag_line]]

Participant(participant_id, team_id) ==
    [participant_id |-> participant_id, team_id |-> team_id]

Champion(alias, name) == [alias |-> alias, name |-> name]

\* the "#CNAME:" tag: <<intermediate_name, target_cname>>
parse_cname(shopper_name) ==
    LET idx_start == rfind(shopper_name, "#CNAME:")
    IN  IF idx_start # 0
        THEN <<SubSeq(shopper_name, 1, idx_start - 1),
               Some(SubSeq(shopper_name, idx_start + 1, Len(shopper_name)))>>
        ELSE <<shopper_name, None>>

\* the "#TEAM:" tag: <<actual_name, target_team_side>>
parse_team(intermediate_name) ==
    LET idx_start == rfind(intermediate_name, "#TEAM:")
        team_str == SubSeq(intermediate_name, idx_start + 1,
                           Len(intermediate_name))
    IN  IF idx_start # 0
        THEN <<SubSeq(intermediate_name, 1, idx_start - 1),
               CASE team_str \in {<<"100">>, <<"ORDER">>, <<"Order">>} ->
                        Some(100)
                 [] team_str \in {<<"200">>, <<"CHAOS">>, <<"Chaos">>} ->
                        Some(200)
                 [] OTHER -> None>>
        ELSE <<intermediate_name, None>>

\* pid_to_team: a later Participant with the same id replaces an earlier one
pid_to_team(participants_info) ==
    [pid \in {participants_info[i].participant_id :
                 i \in 1..Len(participants_info)} |->
        LET i == CHOOSE i \in 1..Len(participants_info) :
                    /\ participants_info[i].participant_id = pid
                    /\ \A j \in (i + 1)..Len(participants_info) :
                          participants_info[j].participant_id # pid
        IN  participants_info[i].team_id]

IdentityMatchesMut(pi, actual_name, target_cname, target_team_side, participants_info, pid_to_champ) ==
    LET pid == pi.participant_id
        team == pid_to_team(participants_info)
        name_matches == \/ pi.player.game_name = actual_name
                        \/ contains(actual_name, pi.player.game_name)
                        \/ contains(pi.player.game_name, actual_name)
        cname_matches == /\ target_cname # None
                         /\ pid \in DOMAIN pid_to_champ
                         /\ \/ pid_to_champ[pid].alias = target_cname[1]
                            \/ pid_to_champ[pid].name = target_cname[1]
    IN  /\ cname_matches \/ name_matches
        /\ IF target_team_side # None
           THEN IF pid \in DOMAIN team
                THEN team[pid] = target_team_side[1]
                ELSE (IF pid <= 5 THEN 100 ELSE 200) = target_team_side[1]
           ELSE TRUE

\* the closure given to find: does the identity pi match the shopper
identity_matches(pi, actual_name, target_cname, target_team_side, participants_info, pid_to_champ) ==
    LET pid == pi.participant_id
        team == pid_to_team(participants_info)
        full_riot_id == pi.player.game_name \o <<"#">> \o pi.player.tag_line
        name_matches == \/ pi.player.game_name = actual_name
                        \/ full_riot_id = actual_name
        partial_match == /\ actual_name # <<>>
                         /\ \/ contains(actual_name, pi.player.game_name)
                            \/ contains(pi.player.game_name, actual_name)
    IN  IF target_cname # None
        THEN /\ pid \in DOMAIN pid_to_champ
             /\ \/ pid_to_champ[pid].alias = target_cname[1]
                \/ pid_to_champ[pid].name = target_cname[1]
             /\ IF target_team_side # None
                THEN /\ pid \in DOMAIN team
                     /\ team[pid] = target_team_side[1]
                ELSE TRUE
        ELSE /\ name_matches \/ partial_match
             /\ IF target_team_side # None
                THEN IF pid \in DOMAIN team
                     THEN team[pid] = target_team_side[1]
                     ELSE (IF pid <= 5 THEN 100 ELSE 200) = target_team_side[1]
                ELSE TRUE

\* participant_identities.iter().find(..): the first identity that matches
find_identity(shopper_name, participant_identities, participants_info, pid_to_champ) ==
    LET cname == parse_cname(shopper_name)
        team == parse_team(cname[1])
        hit(i) == identity_matches(participant_identities[i], team[1],
                                   cname[2], team[2], participants_info,
                                   pid_to_champ)
    IN  IF \E i \in 1..Len(participant_identities) : hit(i)
        THEN Some(participant_identities[
                 CHOOSE i \in 1..Len(participant_identities) :
                    hit(i) /\ \A j \in 1..(i - 1) : ~hit(j)])
        ELSE None

\* (event_time * 1000.0) as i64: the cast drops the fraction
timestamp_of(event_time) ==
    IF event_time >= 0 THEN event_time \div 2 ELSE -((-event_time) \div 2)

\* riot_datatypes::Event built for a matched live event
event_enum(live_event, identity) ==
    CASE live_event.type = "ItemUndo" ->
            [type |-> "ItemUndo", participant_id |-> identity.participant_id,
             before_id |-> live_event.item_before.item_id,
             after_id |-> live_event.item_after.item_id,
             gold_gain |-> live_event.gold_gain]
      [] live_event.type = "ItemSold" ->
            [type |-> "ItemSold", participant_id |-> identity.participant_id,
             item_id |-> live_event.item.item_id,
             slot |-> Some(live_event.item.slot)]
      [] live_event.type = "ItemPurchased" ->
            [type |-> "ItemPurchased",
             participant_id |-> identity.participant_id,
             item_id |-> live_event.item.item_id,
             slot |-> Some(live_event.item.slot)]

\* TryInto::<super::Event>: the three item events convert
try_into(event) == Some(event)

\* one pass of the loop over live_events: what is pushed for one live event
pushed_for(live_event, participant_identities, participants_info, pid_to_champ) ==
    IF live_event.type \notin {"ItemPurchased", "ItemSold", "ItemUndo"}
    THEN <<>>
    ELSE LET identity == find_identity(live_event.shopper_name,
                                       participant_identities,
                                       participants_info, pid_to_champ)
         IN  IF identity = None
             THEN <<>>
             ELSE LET local_event == try_into(event_enum(live_event,
                                                         identity[1]))
                  IN  IF local_event # None
                      THEN <<GameEvent(local_event[1],
                                       timestamp_of(live_event.event_time))>>
                      ELSE <<>>

RECURSIVE PushLiveEventsMut(_, _, _, _, _)
PushLiveEventsMut(events, live_events, participant_identities, participants_info, pid_to_champ) ==
    IF live_events = <<>>
    THEN events
    ELSE LET pushed == pushed_for(Head(live_events), participant_identities,
                                  participants_info, pid_to_champ)
         IN  IF pushed = <<>>
             THEN events
             ELSE PushLiveEventsMut(events \o pushed, Tail(live_events),
                                    participant_identities, participants_info,
                                    pid_to_champ)

\* the loop over live_events: current_events after all pushes
RECURSIVE push_live_events(_, _, _, _, _)
push_live_events(events, live_events, participant_identities, participants_info, pid_to_champ) ==
    IF live_events = <<>>
    THEN events
    ELSE push_live_events(
            events \o pushed_for(Head(live_events), participant_identities,
                                 participants_info, pid_to_champ),
            Tail(live_events), participant_identities, participants_info,
            pid_to_champ)

InsertMut(sorted, e) ==
    LET n == Cardinality({i \in 1..Len(sorted) :
                             sorted[i].timestamp < e.timestamp})
    IN  SubSeq(sorted, 1, n) \o <<e>> \o SubSeq(sorted, n + 1, Len(sorted))

\* the place of e in a sorted list: behind every element whose key is not
\* greater
insert(sorted, e) ==
    LET n == Cardinality({i \in 1..Len(sorted) :
                             sorted[i].timestamp <= e.timestamp})
    IN  SubSeq(sorted, 1, n) \o <<e>> \o SubSeq(sorted, n + 1, Len(sorted))

\* slice::sort_by_key(|e| e.timestamp): a stable sort
RECURSIVE sort_by_key(_)
sort_by_key(events) ==
    IF events = <<>>
    THEN <<>>
    ELSE insert(sort_by_key(SubSeq(events, 1, Len(events) - 1)),
                events[Len(events)])

merge_live_events(events, live_events, participant_identities, participants_info, pid_to_champ) ==
    sort_by_key(push_live_events(events, live_events, participant_identities,
                                 participants_info, pid_to_champ))

\* sequences over S of length at most n
SeqsUpTo(S, n) == UNION {[1..k -> S] : k \in 0..n}

\* the timeline's events as compose_metadata converts them; two share a
\* millisecond, and one equals what a live purchase of participant 1 becomes
TimelineInputs ==
    {GameEvent([type |-> "ChampionKill", participant_id |-> 2], 1),
     GameEvent([type |-> "ItemPurchased", participant_id |-> 1,
                item_id |-> 1001, slot |-> Some(0)], 1),
     GameEvent([type |-> "Dragon", participant_id |-> 6], 2)}

\* the buffer's events: plain, full Riot id, tagged and unknown shopper
\* names, an undo, and an event that is no item event; every tagged event
\* has an inventory slot of its own
LiveInputs ==
    {ItemPurchased(2, <<"Ann">>, PlayerItem(1001, 0)),
     ItemSold(3, <<"Ann", "ie", "#", "EUW">>, PlayerItem(1001, 0)),
     ItemPurchased(4, <<"Bot", "#TEAM:", "CHAOS">>, PlayerItem(3031, 1)),
     ItemPurchased(2, <<"x", "#TEAM:", "ORDER", "#CNAME:", "Annie">>,
                   PlayerItem(3031, 2)),
     ItemPurchased(5, <<"Bot", "#CNAME:", "Ahri">>, PlayerItem(3031, 3)),
     ItemSold(5, <<"Ann", "#TEAM:", "CHAOS", "#CNAME:", "Ahri">>,
              PlayerItem(3031, 4)),
     ItemPurchased(3, <<"Bot", "#IDX:", "5">>, PlayerItem(3031, 5)),
     ItemUndo(2, <<"Bot">>, PlayerItem(3031, 1), PlayerItem(0, 1), 3000),
     ItemSold(0, <<"Nobody">>, PlayerItem(1001, 0)),
     OtherLiveEvent(1, 1)}

\* the game's participants: players whose names contain one another with
\* their champions known; bots of one name on both sides with no Participant
\* and no Champion record
MergeRosters ==
    {[participant_identities |->
        <<ParticipantIdentity(1, <<"Ann", "ie">>, <<"EUW">>),
          ParticipantIdentity(2, <<"Ann">>, <<"NA">>),
          ParticipantIdentity(6, <<"Bot">>, <<>>)>>,
      participants_info |->
        <<Participant(1, 100), Participant(2, 100), Participant(6, 200)>>,
      pid_to_champ |->
        (1 :> Champion(<<"Annie">>, <<"Annie">>))
        @@ (2 :> Champion(<<"Ahri">>, <<"Ahri">>))
        @@ (6 :> Champion(<<"Annie">>, <<"Annie">>))],
     [participant_identities |->
        <<ParticipantIdentity(1, <<"Bot">>, <<>>),
          ParticipantIdentity(6, <<"Bot">>, <<>>)>>,
      participants_info |-> <<>>,
      pid_to_champ |-> <<>>]}

\* the arguments of a call of merge_live_events
MergeCalls ==
    {[current_events |-> ce, live_events |-> le,
      participant_identities |-> r.participant_identities,
      participants_info |-> r.participants_info,
      pid_to_champ |-> r.pid_to_champ] :
        ce \in SeqsUpTo(TimelineInputs, MaxTimelineEvents),
        le \in SeqsUpTo(LiveInputs, MaxMergeLiveEvents),
        r \in MergeRosters}

NoMergeCall ==
    [current_events |-> <<>>, live_events |-> <<>>,
     participant_identities |-> <<>>, participants_info |-> <<>>,
     pid_to_champ |-> <<>>]

\* no call of merge_live_events is in progress
MergeIdle ==
    /\ current_events = <<>>
    /\ merge_args = NoMergeCall
    /\ merge_pc = "idle"

\* merge_live_events runs to its return
MergeLiveEvents ==
    /\ merge_pc = "called"
    /\ current_events' =
          merge_live_events(current_events, merge_args.live_events,
                            merge_args.participant_identities,
                            merge_args.participants_info,
                            merge_args.pid_to_champ)
    /\ merge_pc' = "returned"
    /\ UNCHANGED <<merge_args, listenerVars, hotkeyVars, pollerVars, collectorVars>>

(***************************************************************************)
(* GameListener::run_info_poller                                           *)
(***************************************************************************)
\* the summoner names of the players of a game: different names, or the
\* same bot name on both sides
NameLists == {<< <<"Ann">>, <<"Bot">> >>, << <<"Bot">>, <<"Bot">> >>}

\* inventories as lists of item ids, the slot being the place in the list:
\* an empty one, and two that hold one item twice and are a slot swap of
\* each other
Inventories == {<<>>, <<1001, 1001, 3031>>, <<3031, 1001, 1001>>}

items_of(inventory) ==
    [i \in 1..Len(inventory) |-> PlayerItem(inventory[i], i - 1)]

\* data.events of a snapshot, by event id and in either order
RawSnapshots ==
    {<<>>, <<OtherLiveEvent(1, 1)>>,
     <<OtherLiveEvent(1, 1), OtherLiveEvent(2, 3)>>,
     <<OtherLiveEvent(2, 3), OtherLiveEvent(1, 1)>>}

\* the snapshots all_game_data can return for the players `names`
Snapshots(names, game_time) ==
    {[game_time |-> game_time, events |-> evs,
      all_players |-> [i \in 1..Len(names) |->
                          [summoner_name |-> names[i],
                           items |-> items_of(inv[i])]]] :
        evs \in RawSnapshots, inv \in [1..Len(names) -> Inventories]}

\* a filter that lets an event through whose id equals the watermark
RECURSIVE RawEventsMut(_, _, _)
RawEventsMut(events, watermark, new_events) ==
    IF events = <<>>
    THEN <<watermark, new_events>>
    ELSE LET event == Head(events)
             eid == event.event_id
         IN  IF eid >= watermark
             THEN RawEventsMut(Tail(events), eid, Append(new_events, event))
             ELSE RawEventsMut(Tail(events), watermark, new_events)

\* step 1, the loop over data.events: <<last_event_id, new_events>> after it
RECURSIVE raw_events(_, _, _)
raw_events(events, watermark, new_events) ==
    IF events = <<>>
    THEN <<watermark, new_events>>
    ELSE LET event == Head(events)
             eid == event.event_id
         IN  IF eid > watermark
             THEN raw_events(Tail(events), eid, Append(new_events, event))
             ELSE raw_events(Tail(events), watermark, new_events)

\* old_counts / new_counts: item id -> number of items with that id
counts(items) ==
    [id \in {items[i].item_id : i \in 1..Len(items)} |->
        Cardinality({i \in 1..Len(items) : items[i].item_id = id})]

get_or_0(item_counts, id) ==
    IF id \in DOMAIN item_counts THEN item_counts[id] ELSE 0

\* iter().find(|i| i.item_id == id): the first item with the id
find_item(items, id) ==
    items[CHOOSE i \in 1..Len(items) :
             items[i].item_id = id /\ \A j \in 1..(i - 1) : items[j].item_id # id]

\* the orders in which a HashMap can yield the keys K
Orders(K) ==
    {o \in [1..Cardinality(K) -> K] :
        \A i, j \in 1..Cardinality(K) : o[i] = o[j] => i = j}

\* `count` copies of one event
repeat(event, count) == [k \in 1..count |-> event]

\* the events of one loop over a count map, its keys coming in `order`;
\* events_of[id] are the events pushed for one key
RECURSIVE in_order(_, _)
in_order(order, events_of) ==
    IF order = <<>>
    THEN <<>>
    ELSE events_of[Head(order)] \o in_order(Tail(order), events_of)

\* position(|p| p.summoner_name == name).unwrap_or(0), counted from 0
player_idx(all_players, name) ==
    IF \E i \in 1..Len(all_players) : all_players[i].summoner_name = name
    THEN (CHOOSE i \in 1..Len(all_players) :
             /\ all_players[i].summoner_name = name
             /\ \A j \in 1..(i - 1) : all_players[j].summoner_name # name) - 1
    ELSE 0

\* format!("{}#IDX:{}", name, player_idx)
unique_name(all_players, name) ==
    name \o <<"#IDX:", ToString(player_idx(all_players, name))>>

\* how many ItemSold events one item id gets
sold_count(old_c, new_c) == IF old_c > new_c THEN old_c - new_c ELSE 0

\* how many ItemPurchased events one item id gets
purchased_count(old_c, new_c) == IF new_c > old_c THEN new_c - old_c ELSE 0

\* step 2 for one player: the event lists the two loops over old_counts and
\* new_counts can push, one for every order of the maps' keys
player_diffs(all_players, name, old_items, current_items, game_time) ==
    LET old_counts == counts(old_items)
        new_counts == counts(current_items)
        shopper == unique_name(all_players, name)
        sold == [id \in DOMAIN old_counts |->
                    repeat(ItemSold(game_time, shopper,
                                    find_item(old_items, id)),
                           sold_count(old_counts[id],
                                      get_or_0(new_counts, id)))]
        purchased == [id \in DOMAIN new_counts |->
                        repeat(ItemPurchased(game_time, shopper,
                                             find_item(current_items, id)),
                               purchased_count(get_or_0(old_counts, id),
                                               new_counts[id]))]
    IN  {in_order(so, sold) \o in_order(po, purchased) :
            so \in Orders(DOMAIN old_counts), po \in Orders(DOMAIN new_counts)}

\* previous_inventory.entry(name).or_default()
entry_or_default(inventory, name) ==
    IF name \in DOMAIN inventory THEN inventory[name] ELSE <<>>

\* step 2, the loop over data.all_players from player i on; acc holds the
\* cache, the events pushed so far, and the events pushed for each player;
\* the result is every outcome the orders of the maps allow
RECURSIVE inventory_diffs(_, _, _)
inventory_diffs(data, i, acc) ==
    IF i > Len(data.all_players)
    THEN {acc}
    ELSE LET player == data.all_players[i]
             name == player.summoner_name
             current_items == player.items
             old_items == entry_or_default(acc.previous_inventory, name)
         IN  UNION {inventory_diffs(data, i + 1,
                        [previous_inventory |->
                            (name :> current_items) @@ acc.previous_inventory,
                         new_events |-> acc.new_events \o evs,
                         emitted |-> Append(acc.emitted, evs)]) :
                    evs \in player_diffs(data.all_players, name, old_items,
                                        current_items, data.game_time)}

\* history of the Live Poller: whether the last poll succeeded, the events
\* of its snapshot, the raw events it appended, the events it pushed for each
\* player, and the items it saw for each player at the successful poll before
\* (old) and at the last one (seen); this is the history before the first poll
NoTick(names) ==
    [ok |-> FALSE, events |-> <<>>, raw |-> <<>>, emitted |-> <<>>,
     old |-> [i \in 1..Len(names) |-> <<>>],
     seen |-> [i \in 1..Len(names) |-> <<>>]]

\* no Live Poller runs
PollerIdle ==
    /\ summoner_names = <<>>
    /\ last_event_id = 0
    /\ previous_inventory = <<>>
    /\ live_buffer = <<>>
    /\ polls = 0
    /\ tick = NoTick(<<>>)

\* one pass of the poller's loop, all_game_data returning Ok(data); the game
\* clock has advanced by a second since the last poll
PollOk ==
    /\ polls < MaxPolls
    /\ polls' = polls + 1
    /\ \E data \in Snapshots(summoner_names, 2000 * (polls + 1)) :
         LET raw == raw_events(data.events, last_event_id, <<>>)
         IN  \E done \in inventory_diffs(data, 1,
                            [previous_inventory |-> previous_inventory,
                             new_events |-> raw[2], emitted |-> <<>>]) :
                /\ last_event_id' = raw[1]
                /\ previous_inventory' = done.previous_inventory
                /\ live_buffer' = live_buffer \o done.new_events
                /\ tick' = [ok |-> TRUE, events |-> data.events,
                            raw |-> raw[2], emitted |-> done.emitted,
                            old |-> tick.seen,
                            seen |-> [i \in 1..Len(summoner_names) |->
                                         data.all_players[i].items]]
    /\ UNCHANGED <<summoner_names, listenerVars, hotkeyVars, mergeVars, collectorVars>>

\* one pass of the poller's loop, all_game_data returning Err
PollErr ==
    /\ polls < MaxPolls
    /\ polls' = polls + 1
    /\ tick' = [ok |-> FALSE, events |-> <<>>, raw |-> <<>>,
                emitted |-> <<>>, old |-> tick.seen, seen |-> tick.seen]
    /\ UNCHANGED <<summoner_names, last_event_id, previous_inventory,
                   live_buffer, listenerVars, mergeVars, collectorVars,
                   hotkeyVars>>

(***************************************************************************)
(* The Metadata Collector: the task GameListener::state_transition spawns  *)
(* in the EndOfGame arm, and recorder/metadata.rs: process_data_with_retry *)
(***************************************************************************)
\* Result<T>
Ok(value) == [ok |-> TRUE, value |-> value, error |-> ""]
Err(error) == [ok |-> FALSE, value |-> <<>>, error |-> error]

\* results of fetch_current_lp at the end of a game
EndLpResults == {None, Some(10), Some(31)}

\* how a recording got its start_lp: by the Idle arm on a Session event, or
\* by a manual start (whose polled session is one of PolledSessions)
RecordingOrigins ==
    UNION {{[kind |-> "session", is_ranked |-> ev.is_ranked,
             start_lp |-> lp] : lp \in fetch_start_lp(ev.is_ranked)} :
              ev \in {e \in SessionEvents : e.phase \in StartPhases}}
    \cup {[kind |-> "manual", is_ranked |-> data.is_ranked,
            start_lp |-> manual_start_lp] : data \in PolledSessions}

\* the summoner id of the current summoner when the LCU reports one
SummonerIds == {None, Some(7)}

\* what the LCU holds about the collected game: the queue id, the player's
\* champion id, whether the player is among the participant identities, and
\* Player::summoner_id (absent when current-summoner carries no summonerId)
LcuGames ==
    {[queue_id |-> q, champion_id |-> c, player_found |-> f,
      summoner_id |-> s] :
        q \in {-1, 0, 420}, c \in {3147, 1}, f \in BOOLEAN,
        s \in SummonerIds}

\* results of a REST get
RestResults == {Ok("record"), Err("rest")}

\* the Queue of the game: a synthetic one for the ids -1 and 0, the record
\* of /lol-game-queues/v1/queues/{id} otherwise
queue_of(queue_id) ==
    CASE queue_id = -1 -> {Ok("Practicetool")}
      [] queue_id = 0 -> {Ok("Custom Game")}
      [] OTHER -> RestResults

\* the champion's name: a fixed one for a swarm champion, the record of
\* /lol-champions/v1/inventories/{summoner}/champions/{id} otherwise
champion_name_of(champion_id) ==
    IF champion_id \in {3147, 3151, 3152, 3153, 3156, 3157, 3159, 3678, 3947}
    THEN {Ok("swarm")}
    ELSE RestResults

\* player.summoner_id.unwrap() is evaluated for the url of the champion
\* lookup, which is built for every champion that is no swarm champion
needs_summoner_id(champion_id) ==
    champion_name_of(champion_id) = RestResults

\* Timeline of /lol-match-history/v1/game-timelines/{gameId}: one frame with
\* one event and the gold of one participant
FetchedTimeline ==
    [frames |->
        <<[timestamp |-> 0,
           events |-> <<GameEvent([type |-> "ChampionKill",
                                   participant_id |-> 2], 1)>>,
           participant_frames |->
              <<[participant_id |-> 1, total_gold |-> 500,
                 minions_killed |-> 3, jungle_minions_killed |-> 4]>>]>>]

\* Timeline::default()
DefaultTimeline == [frames |-> <<>>]

UnwrapOrDefaultMut(timeline_data) == FetchedTimeline

\* timeline_data.unwrap_or_default()
unwrap_or_default(timeline_data) ==
    IF timeline_data # None THEN timeline_data[1] ELSE DefaultTimeline

RECURSIVE timeline_events(_)
\* the events of all frames, in order (every event of FetchedTimeline
\* converts)
timeline_events(frames) ==
    IF frames = <<>>
    THEN <<>>
    ELSE Head(frames).events \o timeline_events(Tail(frames))

\* one GoldFrame per frame of the timeline
gold_timeline(frames) ==
    [i \in 1..Len(frames) |->
        [timestamp |-> frames[i].timestamp,
         participants |->
            [j \in 1..Len(frames[i].participant_frames) |->
                LET pf == frames[i].participant_frames[j]
                IN  [participant_id |-> pf.participant_id,
                     total_gold |-> pf.total_gold,
                     minions |-> pf.minions_killed
                                    + pf.jungle_minions_killed]]]]

\* the participants of the collected game
CollectedRoster ==
    [participant_identities |->
        <<ParticipantIdentity(1, <<"Ann", "ie">>, <<"EUW">>),
          ParticipantIdentity(2, <<"Ann">>, <<"NA">>),
          ParticipantIdentity(6, <<"Bot">>, <<>>)>>,
     participants_info |->
        <<Participant(1, 100), Participant(2, 100), Participant(6, 200)>>,
     pid_to_champ |->
        (1 :> Champion(<<"Annie">>, <<"Annie">>))
        @@ (2 :> Champion(<<"Ahri">>, <<"Ahri">>))
        @@ (6 :> Champion(<<"Annie">>, <<"Annie">>))]

\* the champion map built for the reconciler: empty without a summoner id,
\* and without the champions whose lookup failed (here: all or none)
pid_to_champ_of(summoner_id) ==
    IF summoner_id # None
    THEN {CollectedRoster.pid_to_champ, <<>>}
    ELSE {<<>>}

\* the buffers of live events a stopped recording hands over
CollectedLiveEvents ==
    {<<>>,
     <<ItemPurchased(4, <<"Bot", "#TEAM:", "CHAOS">>, PlayerItem(3031, 1))>>}

GameMetadata(match_id, queue, champion_name, events, gold) ==
    [type |-> "Metadata", favorite |-> FALSE, highlights |-> <<>>,
     match_id |-> match_id, queue |-> queue, champion_name |-> champion_name,
     events |-> events, gold_timeline |-> gold, lp_diff |-> None]

\* MetadataFile::Deferred, the sidecar a recording leaves
Deferred(favorite, highlights) ==
    [type |-> "Deferred", favorite |-> favorite, highlights |-> highlights]

\* the sidecar cannot be read (it is missing or does not parse)
Unreadable == [type |-> "Unreadable"]

\* a sidecar that already holds a MetadataFile::Metadata
StaleMetadata ==
    [GameMetadata(0, "stale", "stale", <<>>, <<>>)
        EXCEPT !.favorite = TRUE, !.highlights = <<9>>]

\* what the sidecar of the collected recording can hold when the collector
\* starts
SidecarFiles ==
    {Deferred(FALSE, <<>>), Deferred(TRUE, <<5>>), Unreadable, StaleMetadata}

\* no collector is modelled
NoCollector ==
    [pc |-> "idle", metadata |-> Metadata(RecordingTask(0)),
     start_lp |-> None, origin |-> None, lcu_game |-> None,
     live_events |-> <<>>, attempts |-> 0,
     player_info |-> None, timeline_data |-> None, obtained |-> <<>>,
     timelines |-> <<>>, result |-> None, read |-> None,
     game_metadata |-> None, end_lp |-> None,
     saved |-> None, emitted |-> <<>>, toggled |-> <<>>]

CollectorIdle ==
    /\ collector = NoCollector
    /\ sidecars = <<>>

\* async_runtime::spawn(async move { .. }) of the EndOfGame arm: the task
\* owns the Metadata of the stopped recording, its live events and its
\* start_lp
CollectorSpawned ==
    \E g \in 1..MaxGameId, origin \in RecordingOrigins, game \in LcuGames,
       file \in SidecarFiles, live_events \in CollectedLiveEvents :
        /\ collector =
              [NoCollector EXCEPT !.pc = "retry",
                                  !.metadata = Metadata(RecordingTask(g)),
                                  !.start_lp = origin.start_lp,
                                  !.origin = Some(origin),
                                  !.lcu_game = Some(game),
                                  !.live_events = live_events]
        /\ sidecars =
              [path \in 1..MaxGameId |->
                  IF path = g THEN file ELSE Deferred(FALSE, <<>>)]

\* one pass of the loop `for _ in 0..60` up to its sleep: both fetches and
\* the break; obtained and timelines note, per attempt, whether the
\* (player, game) pair and the timeline arrived
Attempt ==
    /\ collector.pc = "retry"
    /\ \E player_info \in {None, collector.lcu_game},
          timeline_data \in {None, Some(FetchedTimeline)} :
          collector' =
             [collector EXCEPT
                 !.player_info = player_info,
                 !.timeline_data = timeline_data,
                 !.obtained = Append(@, player_info # None),
                 !.timelines = Append(@, timeline_data # None),
                 !.pc = IF player_info # None /\ timeline_data # None
                        THEN "after_loop" ELSE "sleep"]
    /\ UNCHANGED <<sidecars, listenerVars, hotkeyVars, mergeVars, pollerVars>>

\* a retry sleep that ignores the token
RetrySleepMut ==
    /\ collector.pc = "sleep"
    /\ collector' =
          [collector EXCEPT
              !.attempts = @ + 1,
              !.pc = IF collector.attempts + 1 = MaxAttempts
                     THEN "after_loop" ELSE "retry"]
    /\ UNCHANGED <<sidecars, listenerVars, hotkeyVars, mergeVars, pollerVars>>

\* cancellable!(sleep(1 s), cancel_token, ()) at the end of a pass, and the
\* loop's next iteration or end
RetrySleep ==
    /\ collector.pc = "sleep"
    /\ IF cancelled
       THEN collector' =
              [collector EXCEPT
                  !.pc = "returned",
                  !.result = Some(Err("task cancelled (process_data)"))]
       ELSE collector' =
              [collector EXCEPT
                  !.attempts = @ + 1,
                  !.pc = IF collector.attempts + 1 = MaxAttempts
                         THEN "after_loop" ELSE "retry"]
    /\ UNCHANGED <<sidecars, listenerVars, hotkeyVars, mergeVars, pollerVars>>

\* process_data_with_retry behind its loop, to its return or its panic
Compose ==
    /\ collector.pc = "after_loop"
    /\ IF collector.player_info = None
       THEN collector' =
              [collector EXCEPT
                  !.pc = "returned",
                  !.result = Some(Err("unable to collect game data"))]
       ELSE LET game == collector.player_info[1]
                timeline == unwrap_or_default(collector.timeline_data)
            IN  \E queue \in queue_of(game.queue_id),
                   champion_name \in champion_name_of(game.champion_id),
                   pid_to_champ \in pid_to_champ_of(game.summoner_id) :
                   LET events ==
                         merge_live_events(
                            timeline_events(timeline.frames),
                            collector.live_events,
                            CollectedRoster.participant_identities,
                            CollectedRoster.participants_info,
                            pid_to_champ)
                   IN  IF /\ queue.ok
                          /\ game.player_found
                          /\ needs_summoner_id(game.champion_id)
                          /\ game.summoner_id = None
                       THEN collector' = [collector EXCEPT !.pc = "panicked"]
                       ELSE collector' =
                         [collector EXCEPT
                           !.pc = "returned",
                           !.result =
                             Some(CASE ~queue.ok -> Err(queue.error)
                                    [] ~game.player_found ->
                                         Err("player not found in game info")
                                    [] ~champion_name.ok ->
                                         Err(champion_name.error)
                                    [] OTHER ->
                                         Ok(GameMetadata(
                                              collector.metadata.match_id,
                                              queue.value,
                                              champion_name.value,
                                              events,
                                              gold_timeline(
                                                 timeline.frames))))]
    /\ UNCHANGED <<sidecars, listenerVars, hotkeyVars, mergeVars, pollerVars>>

\* lp_diff of the collected game
lp_diff(start_lp, end_lp) ==
    IF start_lp # None /\ end_lp # None
    THEN Some(end_lp[1] - start_lp[1])
    ELSE None

\* a merge that takes the two fields of whatever record the sidecar holds
MergeDeferredMut(game_metadata, file) ==
    IF file.type \in {"Deferred", "Metadata"}
    THEN [game_metadata EXCEPT !.favorite = file.favorite,
                               !.highlights = file.highlights]
    ELSE game_metadata

\* if let Ok(MetadataFile::Deferred(deferred)) = get_recording_metadata(..):
\* the composed GameMetadata takes favorite and highlights of a Deferred
\* sidecar
merge_deferred(game_metadata, file) ==
    IF file.type = "Deferred"
    THEN [game_metadata EXCEPT !.favorite = file.favorite,
                               !.highlights = file.highlights]
    ELSE game_metadata

\* save_recording_metadata(&metadata_filepath, &MetadataFile::Metadata(..));
\* its result is only logged
Save(read, game_metadata, end_lp) ==
    \E written \in BOOLEAN :
        /\ sidecars' =
              IF written
              THEN [sidecars EXCEPT
                       ![collector.metadata.output_filepath] =
                          [game_metadata EXCEPT
                              !.lp_diff = lp_diff(collector.start_lp,
                                                  end_lp)]]
              ELSE sidecars
        /\ collector' = [collector EXCEPT
                            !.pc = "emit",
                            !.read = read,
                            !.game_metadata = Some(game_metadata),
                            !.end_lp = end_lp,
                            !.saved = Some(written)]

\* the match on the result of process_data_with_retry up to the 3 s sleep:
\* an error is logged; a GameMetadata takes the Deferred sidecar's fields
\* and, without a start_lp, is saved at once
AfterReturn ==
    /\ collector.pc = "returned"
    /\ LET result == collector.result[1]
           file == sidecars[collector.metadata.output_filepath]
       IN  IF ~result.ok
           THEN /\ collector' = [collector EXCEPT !.pc = "emit"]
                /\ UNCHANGED sidecars
           ELSE IF collector.start_lp # None
                THEN /\ collector' =
                           [collector EXCEPT
                               !.pc = "lp_sleep",
                               !.read = Some(file),
                               !.game_metadata =
                                  Some(merge_deferred(result.value, file))]
                     /\ UNCHANGED sidecars
                ELSE Save(Some(file), merge_deferred(result.value, file),
                          None)
    /\ UNCHANGED <<listenerVars, hotkeyVars, mergeVars, pollerVars>>

\* tokio::time::sleep(3 s), which does not look at the token, then
\* fetch_current_lp and the save
LpFetchAndSave ==
    /\ collector.pc = "lp_sleep"
    /\ \E end_lp \in EndLpResults :
          Save(collector.read, collector.game_metadata[1], end_lp)
    /\ UNCHANGED <<listenerVars, hotkeyVars, mergeVars, pollerVars>>

\* an emission only for a collected game
EmitChangedMut ==
    /\ collector.pc = "emit"
    /\ collector' =
          [collector EXCEPT
              !.pc = "done",
              !.emitted =
                 IF collector.result[1].ok
                 THEN <<[type |-> "MetadataChanged",
                         payload |-> <<collector.metadata.output_filepath>>]>>
                 ELSE <<>>]
    /\ UNCHANGED <<sidecars, listenerVars, hotkeyVars, mergeVars, pollerVars>>

\* behind the match: MetadataChanged for the video, whatever the match did
EmitChanged ==
    /\ collector.pc = "emit"
    /\ collector' =
          [collector EXCEPT
              !.pc = "done",
              !.emitted =
                 <<[type |-> "MetadataChanged",
                    payload |-> <<collector.metadata.output_filepath>>]>>]
    /\ UNCHANGED <<sidecars, listenerVars, hotkeyVars, mergeVars, pollerVars>>

(***************************************************************************)
(* commands.rs: toggle_favorite                                            *)
(***************************************************************************)
\* the user toggles the favorite flag of the collected recording while its
\* collector runs: get_recording_metadata, set_favorite(!is_favorite()),
\* save_recording_metadata; a sidecar that cannot be read ends the command
\* at the first `?` with nothing written
ToggleFavorite ==
    LET path == collector.metadata.output_filepath
        metadata == sidecars[path]
        favorite == ~metadata.favorite
    IN  /\ collector.pc \notin {"idle", "done", "panicked"}
        /\ Len(collector.toggled) < MaxToggles
        /\ metadata.type # "Unreadable"
        /\ sidecars' = [sidecars EXCEPT ![path].favorite = favorite]
        /\ collector' = [collector EXCEPT !.toggled = Append(@, favorite)]
        /\ UNCHANGED <<listenerVars, mergeVars, pollerVars, hotkeyVars>>

(***************************************************************************)
(* LeagueRecorder: the manual stop/start broadcast channels                *)
(***************************************************************************)
HotkeyNames == {"manual_stop", "manual_start"}

\* tokio::sync::broadcast::channel(1): the number of values the channel
\* retains for a receiver
ChannelCapacity == 1

\* one channel and the one receiver it can have (the listener's): pending is
\* the number of values sent since the receiver subscribed or last received
NewChannel == [subscribed |-> FALSE, pending |-> 0]

\* Sender::subscribe: the receiver starts behind the values sent so far
subscribe(ch) == [subscribed |-> TRUE, pending |-> 0]

\* Sender::send: Err(SendError) without a receiver, the value is dropped
send(ch) ==
    IF ch.subscribed THEN [ch EXCEPT !.pending = @ + 1] ELSE ch

RecvMut(ch) ==
    IF ch.pending = 0
    THEN [result |-> "Pending", ch |-> ch]
    ELSE [result |-> "Ok", ch |-> [ch EXCEPT !.pending = @ - 1]]

\* Receiver::recv: a receiver that fell behind by more than the capacity
\* gets Err(Lagged) once and is moved to the oldest retained value
recv(ch) ==
    IF ch.pending = 0
    THEN [result |-> "Pending", ch |-> ch]
    ELSE IF ch.pending > ChannelCapacity
         THEN [result |-> "Lagged",
               ch |-> [ch EXCEPT !.pending = ChannelCapacity]]
         ELSE [result |-> "Ok", ch |-> [ch EXCEPT !.pending = @ - 1]]

\* history of one channel: signals sent in all (sent), sent without a
\* receiver (lost), sent since the receiver subscribed (heard), sent during
\* the turn in progress (busy), the most sent during one turn of the
\* subscribed listener (burst); turns taken on the channel since the
\* receiver subscribed (got) and since the last signal (since)
NoSignals ==
    [sent |-> 0, lost |-> 0, heard |-> 0, busy |-> 0, burst |-> 0, got |-> 0,
     since |-> 0]

\* LeagueRecorder::new: both channels exist, no listener has subscribed;
\* run is the position of the listener: none, new (before its select loop),
\* select (waiting in select!), turn (inside a branch of select!); disabled
\* holds the branches of the select! in progress whose pattern failed
NewHotkeys ==
    [rx |-> [name \in HotkeyNames |-> NewChannel],
     run |-> "none", disabled |-> {},
     signals |-> [name \in HotkeyNames |-> NoSignals]]

\* LeagueRecorder::manual_stop, LeagueRecorder::manual_start
ManualSignal ==
    \E name \in HotkeyNames :
       /\ hotkeys.signals[name].sent < MaxSignals
       /\ hotkeys' =
            [hotkeys EXCEPT
               !.rx[name] = send(@),
               !.signals[name] =
                  [@ EXCEPT !.sent = @ + 1,
                            !.lost = IF hotkeys.rx[name].subscribed
                                     THEN @ ELSE @ + 1,
                            !.heard = IF hotkeys.rx[name].subscribed
                                      THEN @ + 1 ELSE @,
                            !.busy = IF hotkeys.run = "turn" THEN @ + 1 ELSE @,
                            !.burst = IF hotkeys.run = "turn" /\ @ < hotkeys.signals[name].busy + 1
                                      THEN hotkeys.signals[name].busy + 1
                                      ELSE @,
                            !.since = 0]]
       /\ UNCHANGED <<listenerVars, mergeVars, pollerVars, collectorVars>>

\* the supervisor loop builds a GameListener with a new receiver of each
\* channel
NewListener ==
    /\ hotkeys.run = "none"
    /\ hotkeys' =
         [hotkeys EXCEPT
            !.rx = [name \in HotkeyNames |-> subscribe(hotkeys.rx[name])],
            !.run = "new",
            !.disabled = {},
            !.signals = [name \in HotkeyNames |->
                           [hotkeys.signals[name] EXCEPT
                              !.heard = 0, !.got = 0, !.busy = 0,
                              !.burst = 0]]]
    /\ UNCHANGED <<listenerVars, mergeVars, pollerVars, collectorVars>>

\* GameListener::run reaches its select loop
EnterLoop ==
    /\ hotkeys.run = "new"
    /\ hotkeys' = [hotkeys EXCEPT !.run = "select"]
    /\ UNCHANGED <<listenerVars, mergeVars, pollerVars, collectorVars>>

\* select!: a receiver's recv() completes; Ok(_) runs the branch, anything
\* else disables the branch until the next pass of the loop
SelectRecv ==
    \E name \in HotkeyNames :
       LET r == recv(hotkeys.rx[name])
       IN  /\ hotkeys.run = "select"
           /\ name \notin hotkeys.disabled
           /\ r.result # "Pending"
           /\ hotkeys' =
                IF r.result = "Ok"
                THEN [hotkeys EXCEPT
                        !.rx[name] = r.ch,
                        !.run = "turn",
                        !.disabled = {},
                        !.signals =
                           [n \in HotkeyNames |->
                              IF n = name
                              THEN [hotkeys.signals[n] EXCEPT
                                      !.busy = 0, !.got = @ + 1,
                                      !.since = @ + 1]
                              ELSE [hotkeys.signals[n] EXCEPT !.busy = 0]]]
                ELSE [hotkeys EXCEPT
                        !.rx[name] = r.ch,
                        !.disabled = @ \cup {name}]
           /\ UNCHANGED <<listenerVars, mergeVars, pollerVars, collectorVars>>

\* select!: the websocket branch takes an event
SelectWs ==
    /\ hotkeys.run = "select"
    /\ hotkeys' =
         [hotkeys EXCEPT
            !.run = "turn",
            !.disabled = {},
            !.signals = [n \in HotkeyNames |->
                           [hotkeys.signals[n] EXCEPT !.busy = 0]]]
    /\ UNCHANGED <<listenerVars, mergeVars, pollerVars, collectorVars>>

\* the branch returns and the loop calls select! again
TurnEnd ==
    /\ hotkeys.run = "turn"
    /\ hotkeys' = [hotkeys EXCEPT !.run = "select"]
    /\ UNCHANGED <<listenerVars, mergeVars, pollerVars, collectorVars>>

\* run returns (connect or subscribe failed, the stream ended, the token was
\* cancelled): the listener and its receivers are dropped
ListenerEnd ==
    /\ hotkeys.run \in {"new", "select"}
    /\ hotkeys' =
         [hotkeys EXCEPT
            !.rx = [name \in HotkeyNames |-> NewChannel],
            !.run = "none",
            !.disabled = {}]
    /\ UNCHANGED <<listenerVars, mergeVars, pollerVars, collectorVars>>

(***************************************************************************)
(* Specifications                                                          *)
(***************************************************************************)
\* LeagueRecorder::new: the supervisor task is spawned, no listener exists
ListenerInit ==
    /\ pc = "supervisor"
    /\ cancelled = FALSE
    /\ state = Idle
    /\ last_stopped_game_id = None
    /\ recordingTasks = 0
    /\ highlightTasks = 0
    /\ livePollers = 0
    /\ collectors = 0
    /\ last = NoTurn("init")
    /\ hotkeys = NewHotkeys

Init ==
    /\ ListenerInit
    /\ MergeIdle
    /\ PollerIdle
    /\ CollectorIdle

Next ==
    \/ SupervisorTry
    \/ SupervisorSleep
    \/ Cancel
    \/ ConnectFail
    \/ InitialPoll
    \/ WsEvent
    \/ ManualStop
    \/ ManualStart
    \/ LoopExit
    \/ ForcedAbort
    \/ PollerTick
    \/ CollectorDone

Spec == Init /\ [][Next]_vars

\* the runtime keeps running the supervisor task: a pass of its loop and the
\* end of its sleep are not postponed for ever; connecting and the initial
\* poll of run return; the select of the run loop takes its cancellation
\* branch once the token is cancelled
SpecFair ==
    /\ Spec
    /\ WF_vars(SupervisorTry)
    /\ WF_vars(SupervisorSleep)
    /\ WF_vars(ConnectFail \/ InitialPoll)
    /\ WF_vars(cancelled /\ LoopExit)

\* merge_live_events on its own: a call with arguments of MergeCalls
InitMerge ==
    /\ ListenerInit
    /\ PollerIdle
    /\ CollectorIdle
    /\ merge_args \in MergeCalls
    /\ current_events = merge_args.current_events
    /\ merge_pc = "called"

NextMerge == MergeLiveEvents

SpecMerge == InitMerge /\ [][NextMerge]_vars

\* the two hotkey channels, their senders and the listeners' receivers
NextHotkeys ==
    \/ ManualSignal
    \/ NewListener
    \/ EnterLoop
    \/ SelectRecv
    \/ SelectWs
    \/ TurnEnd
    \/ ListenerEnd

SpecHotkeys == Init /\ [][NextHotkeys]_vars

\* one Live Poller on its own, in a game with the players of a NameLists
InitPoller ==
    /\ ListenerInit
    /\ MergeIdle
    /\ CollectorIdle
    /\ summoner_names \in NameLists
    /\ last_event_id = 0
    /\ previous_inventory = <<>>
    /\ live_buffer = <<>>
    /\ polls = 0
    /\ tick = NoTick(summoner_names)

NextPoller ==
    \/ PollOk
    \/ PollErr

SpecPoller == InitPoller /\ [][NextPoller]_vars

\* one Metadata Collector on its own, from its spawn
InitCollector ==
    /\ ListenerInit
    /\ MergeIdle
    /\ PollerIdle
    /\ CollectorSpawned

\* a step of the collector task
CollectorStep ==
    \/ Attempt
    \/ RetrySleep
    \/ Compose
    \/ AfterReturn
    \/ LpFetchAndSave
    \/ EmitChanged

NextCollector ==
    \/ CollectorStep
    \/ Cancel

SpecCollector == InitCollector /\ [][NextCollector]_vars

\* one Metadata Collector of a recording that left a Deferred sidecar and
\* no live events, and the user toggling the recording's favorite flag
InitToggle ==
    /\ InitCollector
    /\ sidecars[collector.metadata.output_filepath].type = "Deferred"
    /\ collector.live_events = <<>>

NextToggle ==
    \/ CollectorStep
    \/ ToggleFavorite

SpecToggle == InitToggle /\ [][NextToggle]_vars

TypeOK ==
    /\ pc \in {"supervisor", "init", "loop", "sleep", "terminated"}
    /\ cancelled \in BOOLEAN
    /\ state.tag \in {"Idle", "Recording", "EndOfGame"}
    /\ collectors \in 0..MaxCollectors

(***************************************************************************)
(* Properties of the Game Session Listener (specification Spec)            *)
(***************************************************************************)
\* the step before was a turn of state_transition on an LCU session event
SessionTurn ==
    /\ last.kind \in {"ws", "init_poll"}
    /\ last.ev.type = "Session"

SameTasks ==
    /\ recordingTasks = last.pre.recordingTasks
    /\ highlightTasks = last.pre.highlightTasks
    /\ livePollers = last.pre.livePollers

\* C1: in Idle, a Session event with phase GameStart or InProgress for the
\* game whose id is last_stopped_game_id leaves the state Idle, creates no
\* Recording Task and keeps last_stopped_game_id, so a replay meets the same
\* guard again.
C1_StoppedGameNotRecordedAgain ==
    ( /\ SessionTurn
      /\ last.pre.state.tag = "Idle"
      /\ last.ev.phase \in {"GameStart", "InProgress"}
      /\ last.pre.last_stopped_game_id = Some(last.ev.game_id) )
    => /\ state = Idle
       /\ SameTasks
       /\ last_stopped_game_id = last.pre.last_stopped_game_id

C1_Witness ==
    /\ last.kind = "ws"
    /\ last.ev.type = "Session"
    /\ last.ev.phase = "InProgress"
    /\ last.pre.state.tag = "Idle"
    /\ last.pre.last_stopped_game_id = Some(last.ev.game_id)
    /\ state = Idle

\* C2: at most one Recording Task is alive in every reachable state.
C2_AtMostOneRecordingTask == recordingTasks <= 1

C2_Witness ==
    /\ last.kind = "manual_start"
    /\ last.pre.state.tag = "EndOfGame"
    /\ state.tag = "Recording"
    /\ recordingTasks = 1
    /\ cancelled

\* C5: a stop transition from Recording (a Session event with a stop phase, or
\* a manual stop) records the game id of the stopped recording as
\* last_stopped_game_id and, when RecordingTask::stop succeeds, enters
\* EndOfGame with the stop metadata, the buffer's content and the start LP.
C5_StopEntersEndOfGame ==
    ( /\ last.kind \in {"ws", "init_poll", "manual_stop"}
      /\ last.pre.state.tag = "Recording"
      /\ \/ last.kind = "manual_stop"
         \/ /\ last.ev.type = "Session"
            /\ last.ev.phase \in {"FailedToLaunch", "Reconnect",
                                  "WaitingForStats", "PreEndOfGame"} )
    => /\ last_stopped_game_id = Some(last.pre.state.recording_task.game_id)
       /\ last.stop \in {"ok", "err"}
       /\ last.stop = "ok" =>
            /\ state.tag = "EndOfGame"
            /\ state.metadata.match_id = last.pre.state.recording_task.game_id
            /\ state.live_events = last.pre.state.live_events
            /\ state.start_lp = last.pre.state.start_lp

C5_Witness ==
    /\ last.kind = "manual_stop"
    /\ last.pre.state.tag = "Recording"
    /\ last.pre.state.recording_task.game_id = 2
    /\ state.tag = "EndOfGame"
    /\ state.live_events # <<>>
    /\ state.start_lp # None
    /\ last_stopped_game_id = Some(2)

\* C6: in EndOfGame, EogStatsBlock or a Session event with phase EndOfGame,
\* TerminatedInError, ChampSelect or GameStart spawns one Metadata Collector
\* with what the state held and makes the state Idle while that collector
\* runs; any other event leaves the state as it was and spawns nothing.
C6_EndOfGameSpawnsOneCollector ==
    ( /\ last.kind \in {"ws", "init_poll", "manual_stop"}
      /\ last.pre.state.tag = "EndOfGame" )
    => IF \/ last.ev.type = "EogStatsBlock"
          \/ /\ last.ev.type = "Session"
             /\ last.ev.phase \in {"EndOfGame", "TerminatedInError",
                                   "ChampSelect", "GameStart"}
       THEN /\ state = Idle
            /\ last.spawned =
                 <<[metadata |-> last.pre.state.metadata,
                    live_events |-> last.pre.state.live_events,
                    start_lp |-> last.pre.state.start_lp]>>
            /\ collectors = last.pre.collectors + 1
       ELSE /\ state = last.pre.state
            /\ last.spawned = <<>>
            /\ collectors = last.pre.collectors

C6_Witness ==
    /\ last.kind = "ws"
    /\ last.pre.state.tag = "EndOfGame"
    /\ last.ev.type = "Session"
    /\ last.ev.phase = "ChampSelect"
    /\ state = Idle
    /\ collectors = 1
    /\ Len(last.spawned) = 1

\* the effective mode as the design states it: the mode of a well-known
\* queue, otherwise the event's gameMode, otherwise UNKNOWN
EffectiveMode(ev) ==
    CASE ev.queue_id \in {420, 440} -> "RANKED"
      [] ev.queue_id \in {400, 430, 490} -> "NORMAL"
      [] ev.queue_id \in {450, 100} -> "ARAM"
      [] ev.queue_id = 3140 -> "PRACTICE_TOOL"
      [] ev.queue_id = 1700 -> "CHERRY"
      [] ev.queue_id \in {830, 840, 850, 890} -> "COOP_VS_AI"
      [] ev.queue_id \in {1090, 1100, 1130, 1160} -> "TFT"
      [] ev.queue_id = 0 -> "CUSTOM"
      [] ev.game_mode # None -> ev.game_mode[1]
      [] OTHER -> "UNKNOWN"

\* two mode strings of the model that differ at most in case
SameIgnoringCase(a, b) ==
    \/ a = b
    \/ \E class \in {{"RANKED", "Ranked", "ranked"}, {"URF", "urf"},
                     {"ARAM", "aram"}, {"UNKNOWN", "unknown"}} :
          a \in class /\ b \in class

ModeAllowed(game_modes, ev) ==
    \/ game_modes = None
    \/ game_modes = Some(<<>>)
    \/ \E i \in 1..Len(game_modes[1]) :
          SameIgnoringCase(game_modes[1][i], EffectiveMode(ev))

\* C7: in Idle, a Session event with phase GameStart or InProgress whose game
\* is not the last stopped one enters Recording exactly when the allow-list
\* is absent, empty, or holds the effective mode up to case; otherwise the
\* state stays Idle, no task is created and last_stopped_game_id is kept.
C7_RecordsExactlyAllowedModes ==
    ( /\ SessionTurn
      /\ last.pre.state.tag = "Idle"
      /\ last.ev.phase \in {"GameStart", "InProgress"}
      /\ last.pre.last_stopped_game_id # Some(last.ev.game_id) )
    => /\ state.tag = "Recording" <=> ModeAllowed(last.game_modes, last.ev)
       /\ ~ModeAllowed(last.game_modes, last.ev) =>
            /\ state = Idle
            /\ SameTasks
            /\ last_stopped_game_id = last.pre.last_stopped_game_id

C7_Witness ==
    /\ last.kind = "ws"
    /\ last.pre.state.tag = "Idle"
    /\ last.ev.type = "Session"
    /\ last.ev.phase = "GameStart"
    /\ last.ev.queue_id = 420
    /\ last.ev.game_mode = Some("URF")
    /\ last.game_modes = Some(<<"Ranked", "unknown">>)
    /\ state.tag = "Recording"

\* C8: after a successful stop RecordingFinished is sent once, with
\* wasManualStop true exactly for a manual stop; the main window is raised
\* only if the stop was not manual and auto_popup_on_end is set.
C8_ManualStopFlagAndPopup ==
    last.stop = "ok"
    => /\ Len(last.emitted) = 1
       /\ last.emitted[1].type = "RecordingFinished"
       /\ last.emitted[1].payload[2] = (last.kind = "manual_stop")
       /\ last.raised => (last.kind # "manual_stop" /\ last.auto_popup_on_end)

C8_Witness ==
    /\ last.kind = "manual_stop"
    /\ last.stop = "ok"
    /\ last.auto_popup_on_end
    /\ last.emitted = <<RecordingFinished(1, TRUE)>>
    /\ ~last.raised

\* C9: a manual stop in Idle or EndOfGame changes nothing: state,
\* last_stopped_game_id, tasks and collectors are as before, nothing is
\* emitted and no collector is spawned.
C9_ManualStopOutsideRecordingIgnored ==
    ( /\ last.kind = "manual_stop"
      /\ last.pre.state.tag \in {"Idle", "EndOfGame"} )
    => /\ state = last.pre.state
       /\ last_stopped_game_id = last.pre.last_stopped_game_id
       /\ SameTasks
       /\ collectors = last.pre.collectors
       /\ last.emitted = <<>>
       /\ last.spawned = <<>>
       /\ ~last.raised

C9_Witness ==
    /\ last.kind = "manual_stop"
    /\ last.pre.state.tag = "EndOfGame"
    /\ state.tag = "EndOfGame"

\* C10: a manual start in Idle whose polled session has phase GameStart or
\* InProgress stays Idle without a new task when the polled game is the last
\* stopped one, and enters Recording otherwise.
C10_ManualStartInIdleGuarded ==
    ( /\ last.kind = "manual_start"
      /\ last.pre.state.tag = "Idle"
      /\ last.ev.phase \in {"GameStart", "InProgress"} )
    => IF last.pre.last_stopped_game_id = Some(last.ev.game_id)
       THEN state = Idle /\ SameTasks
       ELSE state.tag = "Recording"

\* C11: a manual start in EndOfGame whose polled session has phase GameStart
\* or InProgress enters Recording for the polled game, also when that game is
\* the last stopped one; last_stopped_game_id is not consulted or changed.
C11_ManualStartInEndOfGameOverridesGuard ==
    ( /\ last.kind = "manual_start"
      /\ last.pre.state.tag = "EndOfGame"
      /\ last.ev.phase \in {"GameStart", "InProgress"} )
    => /\ state.tag = "Recording"
       /\ state.recording_task.game_id = last.ev.game_id
       /\ recordingTasks = last.pre.recordingTasks + 1
       /\ last_stopped_game_id = last.pre.last_stopped_game_id

C11_Witness ==
    /\ last.kind = "manual_start"
    /\ last.pre.state.tag = "EndOfGame"
    /\ last.ev.phase = "InProgress"
    /\ last.pre.last_stopped_game_id = Some(last.ev.game_id)
    /\ state.tag = "Recording"
    /\ state.recording_task.game_id = last.ev.game_id

\* C12: a manual start taken while Recording, or whose polled phase is
\* neither GameStart nor InProgress, or whose REST poll fails, leaves the
\* state, the tasks and last_stopped_game_id as they were.
C12_ManualStartElsewhereChangesNothing ==
    ( \/ last.kind = "manual_start_err"
      \/ /\ last.kind = "manual_start"
         /\ \/ last.pre.state.tag = "Recording"
            \/ last.ev.phase \notin {"GameStart", "InProgress"} )
    => /\ state = last.pre.state
       /\ SameTasks
       /\ last_stopped_game_id = last.pre.last_stopped_game_id
       /\ collectors = last.pre.collectors

C12_Witness ==
    /\ last.kind = "manual_start"
    /\ last.pre.state.tag = "Recording"
    /\ last.ev.phase = "GameStart"
    /\ last.ev.game_id # last.pre.state.recording_task.game_id
    /\ state = last.pre.state
    /\ recordingTasks = 1

\* C13: a listener takes no turn on a websocket event or a hotkey signal
\* before its initial REST poll; that poll is applied to the Idle state of a
\* new listener, so a polled GameStart or InProgress of an allowed mode makes
\* the state Recording when the select loop starts; when the poll fails the
\* state is Idle and the loop starts as well.
C13_InitialPollBeforeLoop ==
    /\ pc = "init" => state = Idle /\ last.kind = "other"
    /\ last.kind = "init_poll" =>
          /\ pc = "loop"
          /\ last.pre.state = Idle
          /\ last.pre.last_stopped_game_id = None
          /\ ( /\ last.ev.phase \in {"GameStart", "InProgress"}
               /\ ModeAllowed(last.game_modes, last.ev) )
             => /\ state.tag = "Recording"
                /\ state.recording_task.game_id = last.ev.game_id
          /\ ~( /\ last.ev.phase \in {"GameStart", "InProgress"}
                /\ ModeAllowed(last.game_modes, last.ev) )
             => state = Idle
    /\ last.kind = "init_poll_err" => pc = "loop" /\ state = Idle

C13_Witness ==
    /\ last.kind = "init_poll"
    /\ pc = "loop"
    /\ last.ev.phase = "InProgress"
    /\ last.game_modes = Some(<<"Ranked", "unknown">>)
    /\ state.tag = "Recording"

\* the turn was a stop transition whose recording_task.stop() returned Err,
\* for the recording of game g
FailedStopOf(g) ==
    /\ last.stop = "err"
    /\ last.pre.state.tag = "Recording"
    /\ last.pre.state.recording_task.game_id = g

\* the turn spawned a Metadata Collector for game g
SpawnedFor(g) ==
    /\ last.spawned # <<>>
    /\ last.spawned[1].metadata.match_id = g

\* C18 as stated: once stopping the Recording Task of game g has failed, no
\* Metadata Collector is ever spawned for g.
C18_NoCollectorEverAfterFailedStop ==
    \A g \in 1..MaxGameId : [](FailedStopOf(g) => [](~SpawnedFor(g)))

\* C18: when stopping the Recording Task fails in the stop transition, the
\* state becomes Idle, nothing is emitted, no window is raised, no EndOfGame
\* state holds the recording and the turn spawns no Metadata Collector; the
\* Highlight Task has been stopped and the Live Poller aborted, and the game
\* is the last stopped one.  A collector is spawned only out of EndOfGame.
C18_FailedStopLosesRecording ==
    /\ last.stop = "err"
       => /\ last.pre.state.tag = "Recording"
          /\ state = Idle
          /\ last.emitted = <<>>
          /\ ~last.raised
          /\ last.spawned = <<>>
          /\ collectors = last.pre.collectors
          /\ highlightTasks = last.pre.highlightTasks - 1
          /\ livePollers = last.pre.livePollers - 1
          /\ recordingTasks = last.pre.recordingTasks - 1
          /\ last_stopped_game_id =
                Some(last.pre.state.recording_task.game_id)
    /\ last.spawned # <<>>
       => /\ last.pre.state.tag = "EndOfGame"
          /\ last.spawned[1].metadata = last.pre.state.metadata

C18_Witness ==
    /\ last.stop = "err"
    /\ last.kind = "ws"
    /\ last.ev.phase = "WaitingForStats"
    /\ last.pre.state.tag = "Recording"
    /\ last.pre.highlightTasks = 1
    /\ last.pre.livePollers = 1
    /\ highlightTasks = 0
    /\ livePollers = 0
    /\ state = Idle

StepPos(steps, step) ==
    IF \E i \in 1..Len(steps) : steps[i] = step
    THEN CHOOSE i \in 1..Len(steps) :
             steps[i] = step /\ \A j \in 1..(i - 1) : steps[j] # step
    ELSE 0

\* both steps were performed, a before b
Before(steps, a, b) ==
    /\ StepPos(steps, a) > 0
    /\ StepPos(steps, a) < StepPos(steps, b)

\* C24: when the select loop of run ends (cancellation or closed websocket)
\* while the state is Recording, the Recording Task is stopped, then the
\* Highlight Task, then the Live Poller is aborted, and only then run
\* returns; when it has returned the listener has no Recording Task, no
\* Highlight Task and no Live Poller left and its state is Idle.
C24_CleanupOrder ==
    (last.kind = "loop_exit" /\ last.pre.state.tag = "Recording") =>
        /\ Before(last.steps, "recording_task.stop", "highlight_task.stop")
        /\ Before(last.steps, "highlight_task.stop", "live_task.abort")
        /\ Before(last.steps, "live_task.abort", "return")
        /\ last.steps[Len(last.steps)] = "return"
        /\ recordingTasks = 0 /\ highlightTasks = 0 /\ livePollers = 0
        /\ last.pre.recordingTasks = 1
        /\ state = Idle
        /\ pc = "sleep"

C24_Witness ==
    /\ last.kind = "loop_exit"
    /\ last.pre.state.tag = "Recording"
    /\ cancelled
    /\ recordingTasks = 0

\* C28: a stop transition out of Recording records last_stopped_game_id,
\* then stops the Highlight Task, then aborts the Live Poller and clones the
\* shared buffer, then stops the Recording Task; RecordingFinished is emitted
\* and the state becomes EndOfGame only after that stop, and only when it
\* succeeded.
C28_StopOrder ==
    (last.stop # "none") =>
        /\ last.pre.state.tag = "Recording"
        /\ Before(last.steps, "last_stopped_game_id", "highlight_task.stop")
        /\ Before(last.steps, "highlight_task.stop", "live_task.abort")
        /\ Before(last.steps, "live_task.abort", "live_events.clone")
        /\ Before(last.steps, "live_events.clone", "recording_task.stop")
        /\ last_stopped_game_id
              = Some(last.pre.state.recording_task.game_id)
        /\ highlightTasks = last.pre.highlightTasks - 1
        /\ livePollers = last.pre.livePollers - 1
        /\ recordingTasks = last.pre.recordingTasks - 1
        /\ IF last.stop = "ok"
           THEN /\ Before(last.steps, "recording_task.stop",
                          "RecordingFinished")
                /\ Before(last.steps, "RecordingFinished", "EndOfGame")
                /\ Len(last.emitted) = 1
                /\ last.emitted[1].type = "RecordingFinished"
                /\ state.tag = "EndOfGame"
                /\ state.live_events = last.pre.state.live_events
           ELSE /\ StepPos(last.steps, "RecordingFinished") = 0
                /\ StepPos(last.steps, "EndOfGame") = 0
                /\ last.emitted = <<>>
                /\ state = Idle

C28_Witness ==
    /\ last.stop = "ok"
    /\ last.kind = "ws"
    /\ state.tag = "EndOfGame"
    /\ Len(state.live_events) = 1
    /\ last.emitted # <<>>

\* the run of a listener has ended with a closed websocket or a cancellation
\* while game g was the one its guard refused to record again
ReturnedGuarding(g) ==
    /\ last.kind = "loop_exit"
    /\ last_stopped_game_id = Some(g)

\* the initial poll of a listener has just started a recording of game g
InitialPollRecords(g) ==
    /\ last.kind = "init_poll"
    /\ last.pre.state.tag = "Idle"
    /\ state.tag = "Recording"
    /\ state.recording_task.game_id = g

\* a game other than g is being recorded
OtherRecorded(g) ==
    /\ state.tag = "Recording"
    /\ state.recording_task.game_id # g

\* C26: when a listener whose last stopped game is g has returned, the
\* initial poll of a listener created afterwards starts no recording of g,
\* unless a game other than g is recorded in the meantime.
C26_GuardSurvivesRestart ==
    \A g \in 1..MaxGameId :
        [](ReturnedGuarding(g)
              => ([](~InitialPollRecords(g)) \/ <>OtherRecorded(g)))

\* the supervisor's pass has ended: credentials or platform id unavailable,
\* or the run of its listener returned; the abort of the whole task by
\* LeagueRecorder::stop is no end of a pass
PassEnded ==
    /\ pc \in {"supervisor", "init", "loop"}
    /\ pc' \notin {pc, "init", "loop"}
    /\ last'.kind # "forced_abort"

\* C25 as stated: once the token is cancelled the supervisor starts no
\* further listener.
C25_NoListenerAfterCancel ==
    [][cancelled => ~(pc = "supervisor" /\ pc' = "init")]_vars

\* C25, amended: every pass of the supervisor ends in its sleep; the sleep
\* ends the task exactly when the token is cancelled and otherwise leads to
\* a new pass, which builds a new listener (state Idle, no last stopped
\* game); the task ends only after the cancellation (in its sleep, or
\* aborted by LeagueRecorder::stop) and stays ended; a supervisor
\* that sleeps with the token cancelled starts no further listener; and
\* once the token is cancelled the task eventually ends.
C25_SupervisorRetriesUntilCancelled ==
    /\ [](pc = "terminated" => cancelled)
    /\ [][PassEnded => pc' = "sleep"]_vars
    /\ [][(pc = "sleep" /\ pc' # "sleep")
             => pc' = IF cancelled THEN "terminated" ELSE "supervisor"]_vars
    /\ [][(pc = "supervisor" /\ pc' = "init")
             => state' = Idle /\ last_stopped_game_id' = None]_vars
    /\ [][pc = "terminated" => pc' = "terminated"]_vars
    /\ [][(cancelled /\ pc = "sleep") => pc' \in {"sleep", "terminated"}]_vars
    /\ (cancelled ~> pc = "terminated")

C25_Witness ==
    /\ pc = "terminated"
    /\ cancelled
    /\ last_stopped_game_id # None

\* C34: in Recording, a websocket event that is no Session event with phase
\* FailedToLaunch, Reconnect, WaitingForStats or PreEndOfGame (EogStatsBlock,
\* a Session event with any other phase, of the recorded game or of another
\* one) and a manual start leave the state Recording with the same Recording
\* Task, Live Poller, buffer and start LP, the same number of tasks, the same
\* last_stopped_game_id, and emit and spawn nothing.
C34_RecordingIgnoresOtherInputs ==
    ( /\ last.kind \in {"ws", "init_poll", "manual_start", "manual_start_err"}
      /\ last.pre.state.tag = "Recording"
      /\ ~( /\ last.kind \in {"ws", "init_poll"}
            /\ last.ev.type = "Session"
            /\ last.ev.phase \in {"FailedToLaunch", "Reconnect",
                                  "WaitingForStats", "PreEndOfGame"} ) )
    => /\ state = last.pre.state
       /\ state.tag = "Recording"
       /\ SameTasks
       /\ livePollers = last.pre.livePollers
       /\ last_stopped_game_id = last.pre.last_stopped_game_id
       /\ collectors = last.pre.collectors
       /\ last.emitted = <<>>
       /\ last.spawned = <<>>
       /\ last.stop = "none"

\* a Session event with phase EndOfGame for another game than the recorded
\* one, with a filled buffer and a start LP
C34_Witness ==
    /\ last.kind = "ws"
    /\ last.pre.state.tag = "Recording"
    /\ last.ev.type = "Session"
    /\ last.ev.phase = "EndOfGame"
    /\ last.ev.game_id # last.pre.state.recording_task.game_id
    /\ last.pre.state.live_events # <<>>
    /\ last.pre.state.start_lp # None
    /\ state = last.pre.state
    /\ livePollers = 1

C34_WitnessEog ==
    /\ last.kind = "ws"
    /\ last.pre.state.tag = "Recording"
    /\ last.ev.type = "EogStatsBlock"
    /\ state.tag = "Recording"

\* C36: every step by which the listener leaves EndOfGame (a turn of the
\* EndOfGame arm, a manual start, the end of the run loop) spawns exactly one
\* Metadata Collector, for the recording the state held.
C36_LeavingEndOfGameSpawnsCollector ==
    [][(state.tag = "EndOfGame" /\ state'.tag # "EndOfGame")
       => /\ collectors' = collectors + 1
          /\ Len(last'.spawned) = 1
          /\ last'.spawned[1].metadata = state.metadata]_vars

\* C37: in every reachable state one Live Poller task runs when the listener
\* state is Recording and none runs otherwise.
C37_OnePollerIffRecording ==
    livePollers = IF state.tag = "Recording" THEN 1 ELSE 0

\* C38: once the root token is cancelled no step makes a listener enter
\* Recording, so no Recording Task is created after the cancellation.
C38_NoRecordingAfterCancel ==
    [][cancelled => /\ ~(state.tag # "Recording" /\ state'.tag = "Recording")
                    /\ recordingTasks' <= recordingTasks]_vars

(***************************************************************************)
(* Properties of the hotkey channels (specification SpecHotkeys)           *)
(***************************************************************************)
\* C35: after the last signal on a hotkey channel, however many were sent
\* before it and while the listener was inside a turn, the listener takes at
\* most one turn on that channel; a signal whose branch of select! was
\* disabled by a lag is still held; a channel without a receiver holds no
\* signal, and a listener takes no more turns on a channel than signals were
\* sent while it was subscribed, so a signal sent without a listener causes
\* no turn of a later one.
C35_HotkeysNotQueued ==
    \A name \in HotkeyNames :
       /\ hotkeys.signals[name].since <= 1
       /\ name \in hotkeys.disabled => hotkeys.rx[name].pending >= 1
       /\ ~hotkeys.rx[name].subscribed => hotkeys.rx[name].pending = 0
       /\ hotkeys.signals[name].got <= hotkeys.signals[name].heard
       /\ hotkeys.signals[name].got + hotkeys.rx[name].pending
             <= hotkeys.signals[name].heard
       /\ hotkeys.signals[name].heard + hotkeys.signals[name].lost
             <= hotkeys.signals[name].sent

\* a manual stop sent to no listener, then two sent during one turn of a
\* later listener, of which one turn came and nothing is left
C35_Witness ==
    /\ hotkeys.signals["manual_stop"].lost = 1
    /\ hotkeys.signals["manual_stop"].heard = 2
    /\ hotkeys.signals["manual_stop"].burst = 2
    /\ hotkeys.signals["manual_stop"].got = 1
    /\ hotkeys.signals["manual_stop"].since = 1
    /\ hotkeys.rx["manual_stop"].pending = 0
    /\ hotkeys.run = "select"

\* two manual starts arrive during one turn
C35_WitnessBusy ==
    /\ hotkeys.run = "turn"
    /\ hotkeys.signals["manual_start"].busy = 2
    /\ hotkeys.rx["manual_start"].pending = 2

(***************************************************************************)
(* Properties of merge_live_events (specification SpecMerge)               *)
(***************************************************************************)
\* the events of a list that carry the timestamp t, in the list's order
AtTimestamp(events, t) ==
    LET at(e) == e.timestamp = t
    IN  SelectSeq(events, at)

\* what the loop over the live events pushes, in the order it pushes
PushedLive ==
    push_live_events(<<>>, merge_args.live_events,
                     merge_args.participant_identities,
                     merge_args.participants_info, merge_args.pid_to_champ)

\* C3: the list merge_live_events returns is non-decreasing by timestamp, and
\* the events of one millisecond are in insertion order: the timeline's
\* events of that millisecond in their order, then the live events of that
\* millisecond in theirs.
C3_MergedSortedAndStable ==
    merge_pc = "returned"
    => /\ \A i, j \in 1..Len(current_events) :
            i < j => current_events[i].timestamp <= current_events[j].timestamp
       /\ Len(current_events) =
            Len(merge_args.current_events) + Len(PushedLive)
       /\ \A k \in 1..Len(current_events) :
            LET t == current_events[k].timestamp
            IN  AtTimestamp(current_events, t) =
                    AtTimestamp(merge_args.current_events, t)
                    \o AtTimestamp(PushedLive, t)

C3_Witness ==
    /\ merge_pc = "returned"
    /\ Len(merge_args.current_events) = 2
    /\ merge_args.current_events[1].timestamp = 2
    /\ merge_args.current_events[2].timestamp = 1
    /\ Len(current_events) = 4
    /\ current_events[1] = merge_args.current_events[2]
    /\ current_events[2].event.type = "ItemPurchased"
    /\ current_events[2].timestamp = 1
    /\ current_events[3].event.type = "ItemSold"
    /\ current_events[3].timestamp = 1
    /\ current_events[4] = merge_args.current_events[1]

\* the position of the last tag token in a shopper name, 0 without one
TagAt(shopper_name, tag) ==
    IF \E i \in 1..Len(shopper_name) : shopper_name[i] = tag
    THEN CHOOSE i \in 1..Len(shopper_name) :
            /\ shopper_name[i] = tag
            /\ \A j \in (i + 1)..Len(shopper_name) : shopper_name[j] # tag
    ELSE 0

\* the text behind a tag of a shopper name of the form
\* Name#TEAM:<Side>#CNAME:<Name>, each tag optional
TaggedCName(shopper_name) ==
    SubSeq(shopper_name, TagAt(shopper_name, "#CNAME:") + 1, Len(shopper_name))

TaggedSide(shopper_name) ==
    LET side == shopper_name[TagAt(shopper_name, "#TEAM:") + 1]
    IN  CASE side \in {"100", "ORDER", "Order"} -> 100
          [] side \in {"200", "CHAOS", "Chaos"} -> 200

\* the live item events of the call whose shopper name carries the tag
TaggedLive(tag) ==
    {merge_args.live_events[i] : i \in
        {i \in 1..Len(merge_args.live_events) :
            /\ merge_args.live_events[i].type \in
                  {"ItemPurchased", "ItemSold", "ItemUndo"}
            /\ TagAt(merge_args.live_events[i].shopper_name, tag) # 0}}

\* the participants the returned list attributes a live purchase or sale to
AttributedTo(live_event) ==
    {current_events[k].event.participant_id : k \in
        {k \in 1..Len(current_events) :
            /\ current_events[k].event.type = live_event.type
            /\ current_events[k].event.type \in {"ItemPurchased", "ItemSold"}
            /\ current_events[k].event.item_id = live_event.item.item_id
            /\ current_events[k].event.slot = Some(live_event.item.slot)
            /\ current_events[k].timestamp * 2 <= live_event.event_time
            /\ live_event.event_time < (current_events[k].timestamp + 1) * 2}}

\* the participant plays the tagged champion, on the tagged side if one is
\* tagged
PlaysTagged(pid, shopper_name) ==
    /\ \E i \in 1..Len(merge_args.participant_identities) :
          merge_args.participant_identities[i].participant_id = pid
    /\ pid \in DOMAIN merge_args.pid_to_champ
    /\ \/ merge_args.pid_to_champ[pid].alias = TaggedCName(shopper_name)
       \/ merge_args.pid_to_champ[pid].name = TaggedCName(shopper_name)
    /\ TagAt(shopper_name, "#TEAM:") # 0
       => \E i \in 1..Len(merge_args.participants_info) :
             /\ merge_args.participants_info[i].participant_id = pid
             /\ merge_args.participants_info[i].team_id =
                   TaggedSide(shopper_name)

\* C14: a live item event with a #CNAME tag is attributed to a participant
\* whose champion's alias or name is the tagged name and, with a #TEAM tag,
\* whose team is the tagged side; when no participant is such a one the event
\* is dropped, whatever the name in front of the tags matches.
C14_CNameIsStrict ==
    merge_pc = "returned"
    => \A e \in TaggedLive("#CNAME:") :
          /\ \A pid \in AttributedTo(e) : PlaysTagged(pid, e.shopper_name)
          /\ (\E pid \in 1..10 : PlaysTagged(pid, e.shopper_name))
                => AttributedTo(e) # {}

C14_Witness ==
    /\ merge_pc = "returned"
    /\ merge_args.live_events =
          <<ItemPurchased(5, <<"Bot", "#CNAME:", "Ahri">>, PlayerItem(3031, 3)),
            ItemSold(5, <<"Ann", "#TEAM:", "CHAOS", "#CNAME:", "Ahri">>,
                     PlayerItem(3031, 4))>>
    /\ Len(merge_args.participant_identities) = 3
    /\ merge_args.participant_identities[3].player.game_name = <<"Bot">>
    /\ merge_args.participant_identities[2].player.game_name = <<"Ann">>
    /\ AttributedTo(merge_args.live_events[1]) = {2}
    /\ AttributedTo(merge_args.live_events[2]) = {}
    /\ Len(current_events) = Len(merge_args.current_events) + 1

\* the index n of the suffix #IDX:<n> of a shopper name
TaggedIdx(shopper_name) ==
    CHOOSE n \in 0..9 :
       ToString(n) = shopper_name[TagAt(shopper_name, "#IDX:") + 1]

\* C15: a live item event whose shopper name ends with #IDX:<n> is attributed
\* to the participant n + 1, whatever names, teams and champions are.
C15_IdxResolvesParticipant ==
    merge_pc = "returned"
    => \A e \in TaggedLive("#IDX:") :
          AttributedTo(e) = {TaggedIdx(e.shopper_name) + 1}

\* the name of a shopper name in front of its #TEAM: and #CNAME: tags
PlainName(shopper_name) ==
    LET tags == {i \in 1..Len(shopper_name) :
                    shopper_name[i] \in {"#TEAM:", "#CNAME:"}}
    IN  IF tags = {}
        THEN shopper_name
        ELSE SubSeq(shopper_name, 1,
                    (CHOOSE i \in tags : \A j \in tags : i <= j) - 1)

\* the participants whose gameName, or gameName#tagLine, is the name
ExactlyNamed(name) ==
    {merge_args.participant_identities[i].participant_id : i \in
        {i \in 1..Len(merge_args.participant_identities) :
            LET player == merge_args.participant_identities[i].player
            IN  \/ player.game_name = name
                \/ player.game_name \o <<"#">> \o player.tag_line = name}}

\* the live purchases and sales of the call whose shopper name has no tag
PlainLive ==
    {merge_args.live_events[i] : i \in
        {i \in 1..Len(merge_args.live_events) :
            /\ merge_args.live_events[i].type \in {"ItemPurchased", "ItemSold"}
            /\ \A k \in 1..Len(merge_args.live_events[i].shopper_name) :
                  merge_args.live_events[i].shopper_name[k] \notin
                     {"#TEAM:", "#CNAME:", "#IDX:"}}}

\* C32: a live item event without a #CNAME tag whose plain shopper name
\* equals the gameName or the full Riot ID of some participant identity is
\* attributed to a participant that matches exactly, never to one that only
\* contains, or is contained in, the name.
C32_ExactMatchPreferred ==
    merge_pc = "returned"
    => \A e \in PlainLive :
          ExactlyNamed(PlainName(e.shopper_name)) # {}
          => /\ AttributedTo(e) # {}
             /\ AttributedTo(e) \subseteq ExactlyNamed(PlainName(e.shopper_name))

\* how often x occurs in a list
Count(events, x) == Cardinality({k \in 1..Len(events) : events[k] = x})

\* what merge_live_events returns for the i-th live event of the call alone,
\* with no timeline events
Single(i) ==
    merge_live_events(<<>>, <<merge_args.live_events[i]>>,
                      merge_args.participant_identities,
                      merge_args.participants_info, merge_args.pid_to_champ)

\* how often x occurs in what the live events of the call give one by one
RECURSIVE CountSingles(_, _)
CountSingles(n, x) ==
    IF n = 0 THEN 0 ELSE Count(Single(n), x) + CountSingles(n - 1, x)

\* a live item event with an untagged shopper name that no participant
\* identity's gameName contains or is contained in
Unattributable(live_event) ==
    /\ live_event.type \in {"ItemPurchased", "ItemSold", "ItemUndo"}
    /\ \A k \in 1..Len(live_event.shopper_name) :
          live_event.shopper_name[k] \notin {"#TEAM:", "#CNAME:", "#IDX:"}
    /\ \A i \in 1..Len(merge_args.participant_identities) :
          LET game_name == merge_args.participant_identities[i].player.game_name
          IN  /\ ~contains(game_name, live_event.shopper_name)
              /\ ~contains(live_event.shopper_name, game_name)

\* C33: the returned list holds every timeline event of the input as often
\* as the input does, plus what each live event gives when it is processed
\* alone: at most one event for an ItemPurchased, ItemSold or ItemUndo, of
\* the corresponding kind, none for any other kind and none for an item event
\* no participant can be found for; nothing else is added or removed.
C33_TimelineKeptLiveAtMostOnce ==
    merge_pc = "returned"
    => /\ \A i \in 1..Len(merge_args.live_events) :
             LET e == merge_args.live_events[i]
             IN  /\ Len(Single(i)) <= 1
                 /\ e.type \notin {"ItemPurchased", "ItemSold", "ItemUndo"}
                       => Single(i) = <<>>
                 /\ Unattributable(e) => Single(i) = <<>>
                 /\ \A k \in 1..Len(Single(i)) : Single(i)[k].event.type = e.type
       /\ \A k \in 1..Len(merge_args.current_events) :
             Count(current_events, merge_args.current_events[k])
                >= Count(merge_args.current_events, merge_args.current_events[k])
       /\ \A k \in 1..Len(current_events) :
             Count(current_events, current_events[k]) =
                Count(merge_args.current_events, current_events[k])
                + CountSingles(Len(merge_args.live_events), current_events[k])
       /\ \A i \in 1..Len(merge_args.live_events) :
             \A k \in 1..Len(Single(i)) :
                Count(current_events, Single(i)[k]) >= 1

\* an unattributable sale and an event that is no item event are dropped,
\* the purchase behind them is attributed, the timeline's events stay
C33_Witness ==
    /\ merge_pc = "returned"
    /\ merge_args.live_events =
          <<ItemSold(0, <<"Nobody">>, PlayerItem(1001, 0)),
            ItemPurchased(4, <<"Bot", "#TEAM:", "CHAOS">>, PlayerItem(3031, 1))>>
    /\ Len(merge_args.participant_identities) = 3
    /\ Len(merge_args.current_events) = 2
    /\ Len(current_events) = 3
    /\ \E k \in 1..3 :
          /\ current_events[k].event.type = "ItemPurchased"
          /\ current_events[k].event.participant_id = 6
          /\ current_events[k].event.item_id = 3031

\* a second witness: an event that is no item event in front of an undo
C33_WitnessOther ==
    /\ merge_pc = "returned"
    /\ merge_args.live_events =
          <<OtherLiveEvent(1, 1),
            ItemUndo(2, <<"Bot">>, PlayerItem(3031, 1), PlayerItem(0, 1), 3000)>>
    /\ Len(current_events) = Len(merge_args.current_events) + 1

(***************************************************************************)
(* Properties of the Metadata Collector (specification SpecCollector)      *)
(***************************************************************************)
\* the sidecar of the collector's recording
OwnSidecar == sidecars[collector.metadata.output_filepath]

\* the collector has persisted a GameMetadata
Persisted ==
    /\ collector.pc = "done"
    /\ collector.saved = Some(TRUE)
    /\ OwnSidecar.type = "Metadata"

\* the collector writes no sidecar but the one of its own recording
\* (specification SpecCollector)
CollectorWritesOwnSidecar ==
    \A path \in DOMAIN sidecars :
       path # collector.metadata.output_filepath
       => sidecars[path] = Deferred(FALSE, <<>>)

\* what a collector holds is what the listener carried: a recording gets a
\* start_lp only from a Session event of a ranked queue, a manual start gives
\* none, and start_lp and the Metadata pass unchanged from Recording through
\* EndOfGame into the spawned task (specification Spec)
StartLpCarried ==
    [][ /\ (state.tag # "Recording" /\ state'.tag = "Recording")
           => IF last'.kind = "manual_start"
              THEN state'.start_lp = manual_start_lp
              ELSE /\ last'.kind \in {"ws", "init_poll"}
                   /\ last'.ev.type = "Session"
                   /\ state'.start_lp \in fetch_start_lp(last'.ev.is_ranked)
        /\ (state.tag = "Recording" /\ state'.tag = "Recording")
           => /\ state'.start_lp = state.start_lp
              /\ state'.recording_task = state.recording_task
        /\ (state.tag = "Recording" /\ state'.tag = "EndOfGame")
           => /\ state'.start_lp = state.start_lp
              /\ state'.metadata = Metadata(state.recording_task)
        /\ (state.tag = "EndOfGame" /\ state'.tag = "EndOfGame")
           => state' = state
        /\ (last'.spawned # <<>>)
           => /\ state.tag = "EndOfGame"
              /\ last'.spawned[1].start_lp = state.start_lp
              /\ last'.spawned[1].metadata = state.metadata ]_vars

\* C16: the persisted GameMetadata has lp_diff exactly when the recording was
\* started from a Session event of a ranked queue, the start-LP fetch
\* succeeded and the collector's end-LP fetch succeeded, and then lp_diff is
\* the end LP minus the start LP; an unranked queue, a failed fetch and a
\* manual start leave lp_diff absent.
C16_LpDiffOnlyForRankedSession ==
    Persisted
    => LET origin == collector.origin[1]
       IN  /\ OwnSidecar.lp_diff # None
              <=> /\ origin.kind = "session"
                  /\ origin.is_ranked
                  /\ origin.start_lp # None
                  /\ collector.end_lp # None
           /\ OwnSidecar.lp_diff # None
              => OwnSidecar.lp_diff =
                    Some(collector.end_lp[1] - origin.start_lp[1])

C16_Witness ==
    /\ Persisted
    /\ collector.origin[1].kind = "session"
    /\ collector.origin[1].is_ranked
    /\ collector.origin[1].start_lp = Some(10)
    /\ collector.end_lp = Some(31)
    /\ OwnSidecar.lp_diff = Some(21)

\* process_data_with_retry has returned, and was not cancelled in its loop
Returned ==
    /\ collector.result # None
    /\ collector.result[1].error # "task cancelled (process_data)"

\* C19: process_data_with_retry fails with "unable to collect game data"
\* exactly when none of its attempts obtained the (player, game) pair; a pair
\* obtained on any attempt lets it proceed, whatever later attempts return.
C19_FailsOnlyIfPairNeverArrived ==
    Returned
    => ( collector.result[1].error = "unable to collect game data"
         <=> \A i \in 1..Len(collector.obtained) : ~collector.obtained[i] )

\* C20: once the (player, game) pair is there, a failed REST call for the
\* queue record or the champion record never makes the collector return an
\* error: it returns a GameMetadata and the sidecar is written.
C20_EnrichmentFailureIsNoError ==
    ( /\ Returned
      /\ collector.player_info # None
      /\ collector.player_info[1].player_found )
    => /\ collector.result[1].ok
       /\ collector.pc = "done" => OwnSidecar.type = "Metadata"

\* C21: the Metadata Collector never panics, whatever the REST calls return
\* and whatever the player record holds.
C21_CollectorNeverPanics ==
    collector.pc # "panicked"

\* C22 as stated: MetadataChanged is emitted only when the sidecar of the
\* video has been persisted as MetadataFile::Metadata by this collector.
C22_ChangedOnlyAfterPersist ==
    collector.emitted # <<>>
    => /\ collector.result[1].ok
       /\ collector.saved = Some(TRUE)
       /\ OwnSidecar.type = "Metadata"

\* MetadataChanged{payload: [video]} of the collector's own video
OwnChanged ==
    <<[type |-> "MetadataChanged",
       payload |-> <<collector.metadata.output_filepath>>]>>

\* C22, amended: a collector whose process_data_with_retry has returned
\* emits MetadataChanged for its video exactly once, as its last step,
\* whether the game was collected, the collection failed or was cancelled,
\* or the write failed; no sidecar is written once it is emitted, so a
\* persisted sidecar is persisted before the emission.
C22_ChangedEmittedLast ==
    /\ [](collector.emitted # <<>> <=> collector.pc = "done")
    /\ [](collector.pc = "done" => collector.emitted = OwnChanged)
    /\ []((collector.pc = "done" /\ collector.saved = Some(TRUE))
             => /\ collector.result[1].ok
                /\ OwnSidecar.type = "Metadata"
                /\ OwnSidecar.match_id = collector.metadata.match_id)
    /\ []((collector.pc = "done" /\ collector.saved # Some(TRUE))
             => OwnSidecar = IF collector.read # None
                             THEN collector.read[1] ELSE OwnSidecar)
    /\ [][sidecars' # sidecars
             => collector.emitted = <<>> /\ collector'.emitted = <<>>]_vars
    /\ [][collector.emitted # <<>> => collector' = collector]_vars

\* the collection was cancelled in a retry sleep, and MetadataChanged was
\* emitted all the same
C22_Witness ==
    /\ collector.pc = "done"
    /\ ~collector.result[1].ok
    /\ collector.result[1].error = "task cancelled (process_data)"
    /\ collector.emitted = OwnChanged
    /\ OwnSidecar.type = "Deferred"

\* C23 as stated, for the collector: a Metadata Collector that is sleeping
\* when the token is cancelled, between retries or in the 3 s wait before
\* the end-LP fetch, writes no sidecar.
C23_CancelledSleepWritesNothing ==
    [][(cancelled /\ collector.pc \in {"sleep", "lp_sleep"})
          => sidecars' = sidecars]_vars

\* the loop has ended without a timeline on any attempt and with the
\* (player, game) pair in hand, and process_data_with_retry has ended
NoTimelineButPair ==
    /\ collector.pc \notin {"retry", "sleep", "after_loop"}
    /\ \A i \in 1..Len(collector.timelines) : ~collector.timelines[i]
    /\ collector.player_info # None

ReconciledLive(pid_to_champ) ==
    merge_live_events(<<>>, collector.live_events,
                      CollectedRoster.participant_identities,
                      CollectedRoster.participants_info, pid_to_champ)

StepsLeft ==
    CASE collector.pc = "retry" -> 2 * (MaxAttempts - collector.attempts) + 6
      [] collector.pc = "sleep" -> 2 * (MaxAttempts - collector.attempts) + 5
      [] collector.pc = "after_loop" -> 4
      [] collector.pc = "returned" -> 3
      [] collector.pc = "lp_sleep" -> 2
      [] collector.pc = "emit" -> 1
      [] OTHER -> 0

\* C29: process_data_with_retry makes at most MaxAttempts fetch attempts
\* (60 in the program); no attempt follows one on which both the pair and
\* the timeline were obtained, and that attempt ends the loop; a retry sleep
\* that finds the token cancelled returns the cancellation error, after
\* which no GameMetadata exists and no sidecar is written; and the
\* collector task always comes to its end: every step it takes leaves it
\* fewer steps to take, and only a task that has ended or panicked has none
\* left.
C29_RetryLoopBoundedAndTerminates ==
    /\ [](/\ Len(collector.obtained) <= MaxAttempts
          /\ collector.attempts <= MaxAttempts
          /\ Len(collector.timelines) = Len(collector.obtained))
    /\ [](\A i \in 1..Len(collector.obtained) :
             (collector.obtained[i] /\ collector.timelines[i])
             => /\ i = Len(collector.obtained)
                /\ collector.pc \notin {"retry", "sleep"})
    /\ [][(collector.pc = "sleep" /\ cancelled /\ collector' # collector)
             => /\ collector'.pc = "returned"
                /\ collector'.result
                      = Some(Err("task cancelled (process_data)"))]_vars
    /\ []((/\ collector.result # None
           /\ collector.result[1].error = "task cancelled (process_data)")
             => /\ ~collector.result[1].ok
                /\ collector.game_metadata = None
                /\ collector.saved = None)
    /\ [][(/\ collector.result # None
           /\ collector.result[1].error = "task cancelled (process_data)")
             => sidecars' = sidecars]_vars
    /\ [](/\ collector.pc \in {"retry", "sleep", "after_loop", "returned",
                              "lp_sleep", "emit", "done", "panicked"}
          /\ StepsLeft >= 0
          /\ StepsLeft = 0 <=> collector.pc \in {"done", "panicked"})
    /\ [][collector' # collector => StepsLeft' < StepsLeft]_vars

\* the loop ran out of attempts, and the collector came to its end
C29_Witness ==
    /\ collector.pc = "done"
    /\ Len(collector.obtained) = MaxAttempts
    /\ collector.attempts = MaxAttempts
    /\ \A i \in 1..MaxAttempts : ~collector.timelines[i]

\* C30: the persisted Metadata carries favorite and highlights of the
\* sidecar when the sidecar held a Deferred record at the moment the
\* collector had the GameMetadata; otherwise favorite is false and
\* highlights is empty.
C30_DeferredFieldsCarried ==
    Persisted
    => LET file == collector.read[1]
       IN  /\ collector.read # None
           /\ IF file.type = "Deferred"
              THEN /\ OwnSidecar.favorite = file.favorite
                   /\ OwnSidecar.highlights = file.highlights
              ELSE /\ OwnSidecar.favorite = FALSE
                   /\ OwnSidecar.highlights = <<>>

\* a Deferred sidecar with a favorite mark and a highlight was carried over
\* the 3 s wait into the persisted Metadata
C30_Witness ==
    /\ Persisted
    /\ collector.read = Some(Deferred(TRUE, <<5>>))
    /\ OwnSidecar.favorite
    /\ OwnSidecar.highlights = <<5>>
    /\ collector.end_lp # None

\* a sidecar that already held a Metadata record lost its favorite mark
C30_WitnessStale ==
    /\ Persisted
    /\ collector.read = Some(StaleMetadata)
    /\ ~OwnSidecar.favorite

(***************************************************************************)
(* Properties of toggle_favorite beside the collector (SpecToggle)         *)
(***************************************************************************)
\* C39: when the collector has persisted the GameMetadata of a recording
\* whose favorite flag the user toggled while the collector ran, the sidecar
\* carries the favorite value of the last toggle.
C39_ToggleSurvivesCollector ==
    (Persisted /\ collector.toggled # <<>>)
    => OwnSidecar.favorite = collector.toggled[Len(collector.toggled)]

(***************************************************************************)
(* Properties of the Live Poller (specification SpecPoller)                *)
(***************************************************************************)
ItemIds == {1001, 3031}

\* the number of items with the id in an inventory
ItemCount(items, id) ==
    Cardinality({k \in 1..Len(items) : items[k].item_id = id})

\* the number of events of a type for the item id
EventCount(events, type, id) ==
    Cardinality({k \in 1..Len(events) :
                    events[k].type = type /\ events[k].item.item_id = id})

\* C4: on a successful poll, for every player and item id, the poller pushes
\* max(0, old - new) ItemSold and max(0, new - old) ItemPurchased events,
\* old and new counting the id in the player's inventory at the poll before
\* (empty at the first) and at this one.
C4_InventoryDiffCounts ==
    tick.ok
    => \A i \in 1..Len(summoner_names) : \A id \in ItemIds :
          LET old_count == ItemCount(tick.old[i], id)
              new_count == ItemCount(tick.seen[i], id)
          IN  /\ EventCount(tick.emitted[i], "ItemSold", id) =
                    (IF old_count > new_count THEN old_count - new_count
                     ELSE 0)
              /\ EventCount(tick.emitted[i], "ItemPurchased", id) =
                    (IF new_count > old_count THEN new_count - old_count
                     ELSE 0)

\* the raw events of the buffer: those that carry an event id of the game
RawIn(buffer) ==
    {k \in 1..Len(buffer) : buffer[k].type = "ChampionKill"}

\* the largest event id among the raw events of the buffer, 0 without one
MaxRawId(buffer) ==
    IF RawIn(buffer) = {}
    THEN 0
    ELSE CHOOSE m \in {buffer[k].event_id : k \in RawIn(buffer)} :
            \A k \in RawIn(buffer) : buffer[k].event_id <= m

\* C31: on a successful poll every raw event of the snapshot whose event id
\* is greater than the watermark held when the poll began is appended to
\* the buffer, in whatever order the snapshot lists its events, and the
\* watermark afterwards is the largest event id appended so far.
C31_AllNewRawEventsAppended ==
    [][(polls' = polls + 1 /\ tick'.ok)
          => /\ \A i \in 1..Len(tick'.events) :
                   tick'.events[i].event_id > last_event_id
                   => \E k \in 1..Len(tick'.raw) :
                         tick'.raw[k] = tick'.events[i]
             /\ last_event_id' = MaxRawId(live_buffer')]_vars

\* C40: the watermark never decreases; the raw events of the buffer have
\* strictly increasing event ids, so none is appended twice; the watermark
\* is the largest of them; and a failed poll changes neither the watermark
\* nor the per-summoner inventories nor the buffer, and is counted as one
\* more pass of a loop that goes on.
C40_WatermarkMonotoneNoDuplicates ==
    /\ [][last_event_id' >= last_event_id]_vars
    /\ [](\A j, k \in RawIn(live_buffer) :
             j < k => live_buffer[j].event_id < live_buffer[k].event_id)
    /\ [](last_event_id = MaxRawId(live_buffer))
    /\ [][(polls' = polls + 1 /\ ~tick'.ok)
             => /\ last_event_id' = last_event_id
                /\ previous_inventory' = previous_inventory
                /\ live_buffer' = live_buffer
                /\ tick'.seen = tick.seen]_vars
    /\ [][/\ Len(live_buffer') >= Len(live_buffer)
          /\ SubSeq(live_buffer', 1, Len(live_buffer)) = live_buffer]_vars

\* a failed poll after a successful one that appended both raw events
C40_Witness ==
    /\ polls = 2
    /\ ~tick.ok
    /\ last_event_id = 2
    /\ Cardinality(RawIn(live_buffer)) = 2
    /\ previous_inventory # <<>>

====
